---- MODULE Spec2Model ----
(***************************************************************************)
(* ParsedCertificate (net/cert/pki/parsed_certificate.cc): the construction *)
(* pipeline ParsedCertificate::Create, the accessor GetExtension and the    *)
(* convenience CreateAndAddToVector.                                        *)
(*                                                                          *)
(* A certificate buffer is modelled by the structure its DER bytes encode:  *)
(* what each collaborator parser (ParseCertificate, ParseTbsCertificate,    *)
(* ParseSignatureAlgorithm, NormalizeName, ParseExtensions and the          *)
(* per-extension parsers) would find in it.  Create is one action per       *)
(* pipeline stage; a caller issues up to two calls on the same buffer and   *)
(* may look extensions up on the certificate it holds (Spec).  SpecEdit is  *)
(* a caller that edits an unrecognized extension between two calls,         *)
(* SpecReaders has several threads in GetExtension on one certificate, and  *)
(* FairSpec is one call of Create run to its return.                        *)
(*                                                                          *)
(* The same source file holds the DNS record rdata classes                  *)
(* IntegrityRecordRdata and TxtRecordRdata: SpecRdata is a caller of their  *)
(* Create, Serialize and IsEqual on octet strings, and FairSpecRdata runs   *)
(* the loop of TxtRecordRdata::Create to its return.                        *)
(***************************************************************************)
EXTENDS Integers, Sequences, FiniteSets, TLC

VARIABLES
    cert,           \* the caller's certificate buffer (backing_data)
    edited,         \* the buffer as it was before the caller edited it, if it did
    options,        \* ParseCertificateOptions of the calls
    chain,          \* the caller's std::vector<scoped_refptr<ParsedCertificate>>
    call,           \* the entry point in progress: "none", "Create", "CreateAndAddToVector"
    errors_null,    \* TRUE when the caller passed errors == nullptr
    errors_sink,    \* contents of the caller's CertErrors
    unused_errors,  \* contents of Create's local dummy CertErrors
    pc,             \* position of Create: "idle", a stage name, "Complete", "Failed"
    result,         \* the ParsedCertificate under construction
    subject_value,  \* Create's local der::Input subject_value
    extension,      \* Create's local ParsedExtension extension
    path,           \* the stages Create has invoked in this call, in order
    ret,            \* what the last finished call handed to the caller
    calls,          \* the finished calls of the caller, oldest first
    lookup,         \* the caller's last GetExtension call on the certificate it holds
    readers,        \* the GetExtension call of each concurrent reader of that certificate
    rdata           \* the caller's last use of the DNS record rdata classes

vars == <<cert, edited, options, chain, call, errors_null, errors_sink, unused_errors,
          pc, result, subject_value, extension, path, ret, calls, lookup, readers,
          rdata>>

-----------------------------------------------------------------------------
(* Bounds of the input space *)

\* the longest extensions region enumerated (number of Extension records)
MaxExts == 2

\* the number of threads that read one certificate at the same time
MaxReaders == 2

-----------------------------------------------------------------------------
(* Error identifiers, DEFINE_CERT_ERROR_ID *)

kFailedParsingCertificate == "Failed parsing Certificate"
kFailedParsingTbsCertificate == "Failed parsing TBSCertificate"
kFailedParsingSignatureAlgorithm == "Failed parsing SignatureAlgorithm"
kFailedReadingIssuerOrSubject == "Failed reading issuer or subject"
kFailedNormalizingSubject == "Failed normalizing subject"
kFailedNormalizingIssuer == "Failed normalizing issuer"
kFailedParsingExtensions == "Failed parsing extensions"
kFailedParsingBasicConstraints == "Failed parsing basic constraints"
kFailedParsingKeyUsage == "Failed parsing key usage"
kFailedParsingEku == "Failed parsing extended key usage"
kFailedParsingSubjectAltName == "Failed parsing subjectAltName"
kSubjectAltNameNotCritical == "Empty subject and subjectAltName is not critical"
kFailedParsingNameConstraints == "Failed parsing name constraints"
kFailedParsingAia == "Failed parsing authority info access"
kFailedParsingPolicies == "Failed parsing certificate policies"
kFailedParsingPolicyConstraints == "Failed parsing policy constraints"
kFailedParsingPolicyMappings == "Failed parsing policy mappings"
kFailedParsingInhibitAnyPolicy == "Failed parsing inhibit any policy"
kFailedParsingAuthorityKeyIdentifier == "Failed parsing authority key identifier"
kFailedParsingSubjectKeyIdentifier == "Failed parsing subject key identifier"

-----------------------------------------------------------------------------
(* Extension identifiers looked up by Create *)

kBasicConstraintsOid == "basicConstraints"
kKeyUsageOid == "keyUsage"
kExtKeyUsageOid == "extKeyUsage"
kSubjectAltNameOid == "subjectAltName"
kNameConstraintsOid == "nameConstraints"
kAuthorityInfoAccessOid == "authorityInfoAccess"
kCertificatePoliciesOid == "certificatePolicies"
kPolicyConstraintsOid == "policyConstraints"
kPolicyMappingsOid == "policyMappings"
kInhibitAnyPolicyOid == "inhibitAnyPolicy"
kSubjectKeyIdentifierOid == "subjectKeyIdentifier"
kAuthorityKeyIdentifierOid == "authorityKeyIdentifier"

\* the identifiers Create dispatches on, in the order of its lookups
RecognizedOids ==
    << kBasicConstraintsOid, kKeyUsageOid, kExtKeyUsageOid, kSubjectAltNameOid,
       kNameConstraintsOid, kAuthorityInfoAccessOid, kCertificatePoliciesOid,
       kPolicyConstraintsOid, kPolicyMappingsOid, kInhibitAnyPolicyOid,
       kSubjectKeyIdentifierOid, kAuthorityKeyIdentifierOid >>

\* an identifier Create has no parser for
UnrecognizedOids == {"unrecognized"}

Range(s) == {s[i] : i \in 1..Len(s)}

AllOids == Range(RecognizedOids) \cup UnrecognizedOids

\* the recognized identifiers as a set
RecognizedOidSet == Range(RecognizedOids)

\* position of each identifier in a fixed enumeration of AllOids
OidRanks ==
    [oid \in AllOids |->
        IF oid \in Range(RecognizedOids)
        THEN CHOOSE i \in 1..Len(RecognizedOids) : RecognizedOids[i] = oid
        ELSE Len(RecognizedOids) + 1]

OidRank(oid) == OidRanks[oid]

-----------------------------------------------------------------------------
(* The certificate buffers, options and chains the caller may hold *)

\* the value bytes of an extension: <<0>> is a value no extension parser
\* accepts, <<1>> a value every extension parser accepts
Values == {<<0>>, <<1>>}

\* one Extension record of the extensions region
ExtensionRecords == [oid : AllOids, critical : BOOLEAN, value : Values]

\* the record lists of at most MaxExts entries, identifiers in enumeration
\* order (the extension table is a map: the order of the records is not kept)
ExtensionLists ==
    UNION { { l \in [1..n -> ExtensionRecords] :
                \A i \in 1..(n - 1) : OidRank(l[i].oid) <= OidRank(l[i + 1].oid) }
            : n \in 0..MaxExts }

\* subject and issuer TLVs: the outer tag, the RDNs inside, and whether bytes
\* follow the element.  "CN=?" is an attribute value NormalizeName rejects.
Name(tag, value, trailing) == [tag |-> tag, value |-> value, trailing |-> trailing]

EmptyName == Name("SEQUENCE", <<>>, FALSE)

GoodName == Name("SEQUENCE", <<"CN=A">>, FALSE)

NameTlvs ==
    { Name("SEQUENCE", v, FALSE) : v \in {<<>>, <<"CN=A">>, <<"cn=a">>, <<"CN=?">>} }
    \cup { Name("SET", <<"CN=A">>, FALSE), Name("SEQUENCE", <<"CN=A">>, TRUE) }

SigAlgTlvs == {"sha256WithRSAEncryption", "ecdsa-with-SHA256", "unknownAlgorithm"}

\* absl::optional<der::Input> extensions_tlv: <<>> is nullopt, <<r>> holds r
NoExtensions == <<>>

ExtensionsRegion(wellFormed, entries) ==
    << [wellFormed |-> wellFormed, entries |-> entries] >>

\* "ok" parses under any options, "lenient_only" only under lenient options
TbsForms == {"ok", "lenient_only", "malformed"}

Options == [lenient : BOOLEAN]

DefaultOptions == [lenient |-> FALSE]

Certificate(wellFormed, form, sigalg, subject, issuer, exts) ==
    [ wellFormed |-> wellFormed,
      tbs_certificate_tlv |->
          [ form |-> form, subject_tlv |-> subject, issuer_tlv |-> issuer,
            extensions_tlv |-> exts ],
      signature_algorithm_tlv |-> sigalg,
      signature_value |-> "signature" ]

\* buffers that vary every stage before the extensions
EarlyCerts ==
    { Certificate(w, f, s, subj, iss, e) :
        w \in BOOLEAN, f \in TbsForms,
        s \in {"sha256WithRSAEncryption", "unknownAlgorithm"},
        subj \in NameTlvs, iss \in NameTlvs,
        e \in {NoExtensions,
               ExtensionsRegion(TRUE,
                   << [oid |-> kSubjectAltNameOid, critical |-> TRUE, value |-> <<1>>] >>)} }

\* buffers whose early stages succeed and whose extensions region varies
ExtCerts ==
    { Certificate(TRUE, "ok", s, subj, GoodName, e) :
        s \in {"sha256WithRSAEncryption"}, subj \in {EmptyName, GoodName},
        e \in {NoExtensions}
              \cup { ExtensionsRegion(TRUE, l) : l \in ExtensionLists }
              \cup { ExtensionsRegion(FALSE, l) : l \in {m \in ExtensionLists : Len(m) <= 1} } }
    \cup { Certificate(TRUE, "ok", "ecdsa-with-SHA256", GoodName, GoodName, NoExtensions) }

Inputs == (EarlyCerts \X Options) \cup (ExtCerts \X {DefaultOptions})

-----------------------------------------------------------------------------
(* Collaborator parsers *)

ParseCertificate(c) ==
    [ ok |-> c.wellFormed,
      tbs_certificate_tlv |-> c.tbs_certificate_tlv,
      signature_algorithm_tlv |-> c.signature_algorithm_tlv,
      signature_value |-> c.signature_value ]

ParseTbsCertificate(tlv, opts) ==
    [ ok |-> tlv.form = "ok" \/ (tlv.form = "lenient_only" /\ opts.lenient),
      tbs |-> [ subject_tlv |-> tlv.subject_tlv, issuer_tlv |-> tlv.issuer_tlv,
                extensions_tlv |-> tlv.extensions_tlv ] ]

\* absl::optional<SignatureAlgorithm>: <<>> is nullopt
ParseSignatureAlgorithm(tlv) ==
    IF tlv = "sha256WithRSAEncryption" THEN << "kRsaPkcs1Sha256" >>
    ELSE IF tlv = "ecdsa-with-SHA256" THEN << "kEcdsaSha256" >>
    ELSE <<>>

\* parser.ReadTag(der::kSequence, value) && !parser.HasMore()
GetSequenceValue(tlv) ==
    [ ok |-> tlv.tag = "SEQUENCE" /\ ~tlv.trailing,
      value |-> IF tlv.tag = "SEQUENCE" THEN tlv.value ELSE <<>> ]

NormalizeRdn(rdn) == IF rdn = "CN=A" THEN "cn=a" ELSE rdn

NormalizeName(value) ==
    [ ok |-> \A i \in 1..Len(value) : value[i] # "CN=?",
      normalized |-> [i \in 1..Len(value) |-> NormalizeRdn(value[i])] ]

\* ParsedExtension
ParsedExtension(oid, value, critical) ==
    [oid |-> oid, value |-> value, critical |-> critical]

DefaultParsedExtension == ParsedExtension("", <<>>, FALSE)

\* ParseExtensions: the map from identifier to ParsedExtension, refused when
\* the region is malformed or an identifier occurs more than once
ParseExtensions(region) ==
    LET e == region.entries
        duplicate == \E i, j \in 1..Len(e) : i # j /\ e[i].oid = e[j].oid
    IN  [ ok |-> region.wellFormed /\ ~duplicate,
          extensions |->
              [ o \in {e[i].oid : i \in 1..Len(e)} |->
                  LET k == CHOOSE i \in 1..Len(e) : e[i].oid = o
                  IN  ParsedExtension(o, e[k].value, e[k].critical) ] ]

\* a per-extension parser: refuses empty bytes and <<0>>, otherwise yields the
\* typed value of its own kind decoded from the bytes
DecodeExtension(kind, value) ==
    [ ok |-> Len(value) = 1 /\ value # <<0>>,
      out |-> IF Len(value) = 1 /\ value # <<0>> THEN <<kind, value[1]>> ELSE <<>> ]

ParseBasicConstraints(value) == DecodeExtension("BasicConstraints", value)
ParseKeyUsage(value) == DecodeExtension("KeyUsage", value)
ParseEKUExtension(value) == DecodeExtension("ExtendedKeyUsage", value)
GeneralNames_Create(value) == DecodeExtension("GeneralNames", value)
NameConstraints_Create(value, is_critical) ==
    [ ok |-> DecodeExtension("NameConstraints", value).ok,
      out |-> DecodeExtension("NameConstraints", value).out
                  \o (IF DecodeExtension("NameConstraints", value).ok
                      THEN <<is_critical>> ELSE <<>>) ]
ParseAuthorityInfoAccessURIs(value) == DecodeExtension("AuthorityInfoAccess", value)
ParseCertificatePoliciesExtensionOids(value) == DecodeExtension("CertificatePolicies", value)
ParsePolicyConstraints(value) == DecodeExtension("PolicyConstraints", value)
ParsePolicyMappings(value) == DecodeExtension("PolicyMappings", value)
ParseInhibitAnyPolicy(value) == DecodeExtension("InhibitAnyPolicy", value)
ParseSubjectKeyIdentifier(value) == DecodeExtension("SubjectKeyIdentifier", value)
ParseAuthorityKeyIdentifier(value) == DecodeExtension("AuthorityKeyIdentifier", value)

-----------------------------------------------------------------------------
(* The ParsedCertificate object *)

\* a default-constructed ParsedCertificate (ParsedCertificate() = default);
\* cert_, the der::Input over all of cert_data_, is read as cert_data_
NewParsedCertificate ==
    [ cert_data_ |-> <<>>,
      tbs_certificate_tlv_ |-> <<>>,
      signature_algorithm_tlv_ |-> "",
      signature_value_ |-> "",
      tbs_ |-> [ subject_tlv |-> Name("", <<>>, FALSE),
                 issuer_tlv |-> Name("", <<>>, FALSE),
                 extensions_tlv |-> NoExtensions ],
      signature_algorithm_ |-> <<>>,
      normalized_subject_ |-> <<>>,
      normalized_issuer_ |-> <<>>,
      extensions_ |-> << >>,
      has_basic_constraints_ |-> FALSE,
      basic_constraints_ |-> <<>>,
      has_key_usage_ |-> FALSE,
      key_usage_ |-> <<>>,
      has_extended_key_usage_ |-> FALSE,
      extended_key_usage_ |-> <<>>,
      subject_alt_names_extension_ |-> DefaultParsedExtension,
      subject_alt_names_ |-> <<>>,
      name_constraints_ |-> <<>>,
      has_authority_info_access_ |-> FALSE,
      authority_info_access_extension_ |-> DefaultParsedExtension,
      ca_issuers_uris_and_ocsp_uris_ |-> <<>>,
      has_policy_oids_ |-> FALSE,
      policy_oids_ |-> <<>>,
      has_policy_constraints_ |-> FALSE,
      policy_constraints_ |-> <<>>,
      has_policy_mappings_ |-> FALSE,
      policy_mappings_ |-> <<>>,
      has_inhibit_any_policy_ |-> FALSE,
      inhibit_any_policy_ |-> <<>>,
      subject_key_identifier_ |-> <<>>,
      authority_key_identifier_ |-> <<>> ]

\* GetExtension that hands the stored value back without its critical flag
GetExtension_DropsCritical(obj, extension_oid, out) ==
    IF obj.tbs_.extensions_tlv = NoExtensions
    THEN [ret |-> FALSE, parsed_extension |-> out]
    ELSE IF extension_oid \notin DOMAIN obj.extensions_
    THEN [ret |-> FALSE, parsed_extension |-> DefaultParsedExtension]
    ELSE [ret |-> TRUE,
          parsed_extension |->
              [obj.extensions_[extension_oid] EXCEPT !.critical = FALSE]]

\* GetExtension that clears *parsed_extension before it looks at the
\* certificate
GetExtension_ResetsFirst(obj, extension_oid, out) ==
    IF obj.tbs_.extensions_tlv = NoExtensions
    THEN [ret |-> FALSE, parsed_extension |-> DefaultParsedExtension]
    ELSE IF extension_oid \notin DOMAIN obj.extensions_
    THEN [ret |-> FALSE, parsed_extension |-> DefaultParsedExtension]
    ELSE [ret |-> TRUE, parsed_extension |-> obj.extensions_[extension_oid]]

\* ParsedCertificate::GetExtension on object obj, with the caller's
\* *parsed_extension holding out before the call
GetExtension(obj, extension_oid, out) ==
    IF obj.tbs_.extensions_tlv = NoExtensions
    THEN [ret |-> FALSE, parsed_extension |-> out]
    ELSE IF extension_oid \notin DOMAIN obj.extensions_
    THEN [ret |-> FALSE, parsed_extension |-> DefaultParsedExtension]
    ELSE [ret |-> TRUE, parsed_extension |-> obj.extensions_[extension_oid]]

\* a certificate already in the caller's chain: one parsed earlier from a
\* buffer with a non-empty subject and no extensions region
PriorCertificate ==
    LET c == Certificate(TRUE, "ok", "ecdsa-with-SHA256", GoodName, GoodName, NoExtensions)
    IN  [ NewParsedCertificate EXCEPT
            !.cert_data_ = <<c>>,
            !.tbs_certificate_tlv_ = <<c.tbs_certificate_tlv>>,
            !.signature_algorithm_tlv_ = c.signature_algorithm_tlv,
            !.signature_value_ = c.signature_value,
            !.tbs_ = ParseTbsCertificate(c.tbs_certificate_tlv, DefaultOptions).tbs,
            !.signature_algorithm_ = ParseSignatureAlgorithm(c.signature_algorithm_tlv),
            !.normalized_subject_ = NormalizeName(GoodName.value).normalized,
            !.normalized_issuer_ = NormalizeName(GoodName.value).normalized ]

-----------------------------------------------------------------------------
(* The state machine *)

\* the caller's variables a stage of Create does not touch
CallerFrame == <<cert, edited, readers, rdata, options, chain, call, errors_null, ret, calls, lookup>>

NoReturn == [api |-> "none", object |-> <<>>, value |-> FALSE]

NoLookup == [oid |-> "", before |-> DefaultParsedExtension, ret |-> FALSE,
             parsed_extension |-> DefaultParsedExtension]

\* a caller-side ParsedExtension holding the result of an earlier lookup
StaleParsedExtension == ParsedExtension("stale", <<1>>, TRUE)

Readers == 1..MaxReaders

\* a reader that has not called GetExtension
IdleReader ==
    [ pc |-> "idle", extension_oid |-> "", before |-> DefaultParsedExtension,
      parsed_extension |-> DefaultParsedExtension, it |-> "", ret |-> FALSE ]

\* no DNS record rdata operation has been called
NoRdata ==
    [ pc |-> "idle", call |-> "", data |-> <<>>, record |-> <<>>,
      parse_success |-> FALSE, crashed |-> FALSE, serialized |-> <<>>,
      reparsed |-> <<>>, other |-> <<>>, equal |-> FALSE,
      i |-> 0, texts_ |-> <<>>, txt |-> <<>> ]

Init ==
    /\ \E in \in Inputs : cert = in[1] /\ options = in[2]
    /\ edited = <<>>
    /\ chain = << PriorCertificate >>
    /\ call = "none"
    /\ errors_null = FALSE
    /\ errors_sink = <<>>
    /\ unused_errors = <<>>
    /\ pc = "idle"
    /\ result = <<>>
    /\ subject_value = <<>>
    /\ extension = DefaultParsedExtension
    /\ path = <<>>
    /\ ret = NoReturn
    /\ calls = <<>>
    /\ lookup = NoLookup
    /\ readers = [r \in Readers |-> IdleReader]
    /\ rdata = NoRdata

\* the CertErrors that |errors| points to inside Create
Errors == IF errors_null THEN unused_errors ELSE errors_sink

\* AddError that drops the identifier
AddError_Silent(id) == UNCHANGED <<errors_sink, unused_errors>>

\* errors->AddError(id)
AddError(id) ==
    IF errors_null
    THEN unused_errors' = Append(unused_errors, id) /\ UNCHANGED errors_sink
    ELSE errors_sink' = Append(errors_sink, id) /\ UNCHANGED unused_errors

\* errors->AddError(id); return nullptr;  (the last reference to the object
\* under construction goes away)
Fail(stage, id) ==
    /\ AddError(id)
    /\ pc' = "Failed"
    /\ result' = <<>>
    /\ path' = Append(path, stage)

\* the stage succeeded: Create goes on to the stage next with the object obj
Continue(stage, next, obj) ==
    /\ result' = << obj >>
    /\ pc' = next
    /\ path' = Append(path, stage)
    /\ UNCHANGED <<errors_sink, unused_errors>>

\* Create that gives up at once when it is called without |errors|
EnterCreate_NullErrorsFails(api, null_errors) ==
    /\ pc = "idle"
    /\ Len(calls) < 2
    /\ call' = api
    /\ errors_null' = null_errors
    /\ errors_sink' = <<>>
    /\ unused_errors' = <<>>
    /\ result' = IF null_errors THEN <<>>
                 ELSE << [NewParsedCertificate EXCEPT !.cert_data_ = <<cert>>] >>
    /\ pc' = IF null_errors THEN "Failed" ELSE "ParseCertificate"
    /\ subject_value' = <<>>
    /\ extension' = DefaultParsedExtension
    /\ path' = <<>>
    /\ ret' = NoReturn
    /\ lookup' = NoLookup
    /\ UNCHANGED <<cert, edited, readers, rdata, options, chain, calls>>

\* the first lines of Create: the optional |errors|, the new object, the buffer
EnterCreate(api, null_errors) ==
    /\ pc = "idle"
    /\ Len(calls) < 2
    /\ call' = api
    /\ errors_null' = null_errors
    /\ errors_sink' = <<>>
    /\ unused_errors' = <<>>
    /\ result' = << [NewParsedCertificate EXCEPT !.cert_data_ = <<cert>>] >>
    /\ pc' = "ParseCertificate"
    /\ subject_value' = <<>>
    /\ extension' = DefaultParsedExtension
    /\ path' = <<>>
    /\ ret' = NoReturn
    /\ lookup' = NoLookup
    /\ UNCHANGED <<cert, edited, readers, rdata, options, chain, calls>>

\* the caller's first call: CreateAndAddToVector(buffer, options, &chain, errors),
\* with or without a CertErrors
CallCreateAndAddToVector ==
    \E null_errors \in BOOLEAN :
        /\ calls = <<>>
        /\ EnterCreate("CreateAndAddToVector", null_errors)

\* the caller's second call: ParsedCertificate::Create(buffer, options, errors)
\* on the same buffer, with the other choice for |errors|
CallCreate ==
    /\ calls # <<>>
    /\ EnterCreate("Create", ~calls[1].errors_null)

\* ParseCertificate that refuses a buffer it has parsed before
Stage_ParseCertificate_OncePerBuffer ==
    /\ pc = "ParseCertificate"
    /\ LET p == ParseCertificate(result[1].cert_data_[1])
       IN  IF ~p.ok \/ calls # <<>>
           THEN Fail("ParseCertificate", kFailedParsingCertificate)
           ELSE Continue("ParseCertificate", "ParseTbsCertificate",
                    [result[1] EXCEPT
                        !.tbs_certificate_tlv_ = << p.tbs_certificate_tlv >>,
                        !.signature_algorithm_tlv_ = p.signature_algorithm_tlv,
                        !.signature_value_ = p.signature_value])
    /\ UNCHANGED <<subject_value, extension>>
    /\ UNCHANGED CallerFrame

Stage_ParseCertificate ==
    /\ pc = "ParseCertificate"
    /\ LET p == ParseCertificate(result[1].cert_data_[1])
       IN  IF ~p.ok
           THEN Fail("ParseCertificate", kFailedParsingCertificate)
           ELSE Continue("ParseCertificate", "ParseTbsCertificate",
                    [result[1] EXCEPT
                        !.tbs_certificate_tlv_ = << p.tbs_certificate_tlv >>,
                        !.signature_algorithm_tlv_ = p.signature_algorithm_tlv,
                        !.signature_value_ = p.signature_value])
    /\ UNCHANGED <<subject_value, extension>>
    /\ UNCHANGED CallerFrame

Stage_ParseTbsCertificate ==
    /\ pc = "ParseTbsCertificate"
    /\ LET p == ParseTbsCertificate(result[1].tbs_certificate_tlv_[1], options)
       IN  IF ~p.ok
           THEN Fail("ParseTbsCertificate", kFailedParsingTbsCertificate)
           ELSE Continue("ParseTbsCertificate", "ParseSignatureAlgorithm",
                    [result[1] EXCEPT !.tbs_ = p.tbs])
    /\ UNCHANGED <<subject_value, extension>>
    /\ UNCHANGED CallerFrame

Stage_ParseSignatureAlgorithm ==
    /\ pc = "ParseSignatureAlgorithm"
    /\ LET sigalg == ParseSignatureAlgorithm(result[1].signature_algorithm_tlv_)
       IN  IF sigalg = <<>>
           THEN Fail("ParseSignatureAlgorithm", kFailedParsingSignatureAlgorithm)
           ELSE Continue("ParseSignatureAlgorithm", "Subject",
                    [result[1] EXCEPT !.signature_algorithm_ = sigalg])
    /\ UNCHANGED <<subject_value, extension>>
    /\ UNCHANGED CallerFrame

Stage_Subject ==
    /\ pc = "Subject"
    /\ LET s == GetSequenceValue(result[1].tbs_.subject_tlv)
           n == NormalizeName(s.value)
       IN  /\ subject_value' = s.value
           /\ IF ~s.ok
              THEN Fail("Subject", kFailedReadingIssuerOrSubject)
              ELSE IF ~n.ok
              THEN Fail("Subject", kFailedNormalizingSubject)
              ELSE Continue("Subject", "Issuer",
                       [result[1] EXCEPT !.normalized_subject_ = n.normalized])
    /\ UNCHANGED extension
    /\ UNCHANGED CallerFrame

\* Stage_Issuer that treats a TBS without extensions region as a failure
Stage_Issuer_RequiresExtensions ==
    /\ pc = "Issuer"
    /\ LET s == GetSequenceValue(result[1].tbs_.issuer_tlv)
           n == NormalizeName(s.value)
       IN  IF ~s.ok
           THEN Fail("Issuer", kFailedReadingIssuerOrSubject)
           ELSE IF ~n.ok
           THEN Fail("Issuer", kFailedNormalizingIssuer)
           ELSE IF result[1].tbs_.extensions_tlv = NoExtensions
           THEN Fail("Issuer", kFailedParsingExtensions)
           ELSE Continue("Issuer", "ParseExtensions",
                    [result[1] EXCEPT !.normalized_issuer_ = n.normalized])
    /\ UNCHANGED <<subject_value, extension>>
    /\ UNCHANGED CallerFrame

\* ... and then "if (result->tbs_.extensions_tlv)" chooses what follows
Stage_Issuer ==
    /\ pc = "Issuer"
    /\ LET s == GetSequenceValue(result[1].tbs_.issuer_tlv)
           n == NormalizeName(s.value)
       IN  IF ~s.ok
           THEN Fail("Issuer", kFailedReadingIssuerOrSubject)
           ELSE IF ~n.ok
           THEN Fail("Issuer", kFailedNormalizingIssuer)
           ELSE Continue("Issuer",
                    IF result[1].tbs_.extensions_tlv # NoExtensions
                    THEN "ParseExtensions" ELSE "Complete",
                    [result[1] EXCEPT !.normalized_issuer_ = n.normalized])
    /\ UNCHANGED <<subject_value, extension>>
    /\ UNCHANGED CallerFrame

\* Stage_ParseExtensions that goes on with whatever table a failed
\* ParseExtensions left behind
Stage_ParseExtensions_IgnoresFailure ==
    /\ pc = "ParseExtensions"
    /\ LET p == ParseExtensions(result[1].tbs_.extensions_tlv[1])
       IN  Continue("ParseExtensions", "BasicConstraints",
               [result[1] EXCEPT !.extensions_ = p.extensions])
    /\ UNCHANGED <<subject_value, extension>>
    /\ UNCHANGED CallerFrame

\* Stage_ParseExtensions that reports a refused region under another identifier
Stage_ParseExtensions_OtherError ==
    /\ pc = "ParseExtensions"
    /\ LET p == ParseExtensions(result[1].tbs_.extensions_tlv[1])
       IN  IF ~p.ok
           THEN Fail("ParseExtensions", kFailedParsingCertificate)
           ELSE Continue("ParseExtensions", "BasicConstraints",
                    [result[1] EXCEPT !.extensions_ = p.extensions])
    /\ UNCHANGED <<subject_value, extension>>
    /\ UNCHANGED CallerFrame

\* Stage_ParseExtensions that reports a refused region and goes on to the
\* recognized extensions all the same
Stage_ParseExtensions_GoesOn ==
    /\ pc = "ParseExtensions"
    /\ LET p == ParseExtensions(result[1].tbs_.extensions_tlv[1])
       IN  /\ IF ~p.ok THEN AddError(kFailedParsingExtensions)
              ELSE UNCHANGED <<errors_sink, unused_errors>>
           /\ result' = << [result[1] EXCEPT !.extensions_ = p.extensions] >>
           /\ pc' = "BasicConstraints"
           /\ path' = Append(path, "ParseExtensions")
    /\ UNCHANGED <<subject_value, extension>>
    /\ UNCHANGED CallerFrame

\* Stage_ParseExtensions that refuses a critical extension Create has no
\* parser for
Stage_ParseExtensions_RejectsUnknownCritical ==
    /\ pc = "ParseExtensions"
    /\ LET p == ParseExtensions(result[1].tbs_.extensions_tlv[1])
       IN  IF \/ ~p.ok
              \/ \E o \in DOMAIN p.extensions \cap UnrecognizedOids :
                    p.extensions[o].critical
           THEN Fail("ParseExtensions", kFailedParsingExtensions)
           ELSE Continue("ParseExtensions", "BasicConstraints",
                    [result[1] EXCEPT !.extensions_ = p.extensions])
    /\ UNCHANGED <<subject_value, extension>>
    /\ UNCHANGED CallerFrame

Stage_ParseExtensions ==
    /\ pc = "ParseExtensions"
    /\ LET p == ParseExtensions(result[1].tbs_.extensions_tlv[1])
       IN  IF ~p.ok
           THEN Fail("ParseExtensions", kFailedParsingExtensions)
           ELSE Continue("ParseExtensions", "BasicConstraints",
                    [result[1] EXCEPT !.extensions_ = p.extensions])
    /\ UNCHANGED <<subject_value, extension>>
    /\ UNCHANGED CallerFrame

\* Stage_BasicConstraints that raises has_basic_constraints_ before it looks
\* the extension up
Stage_BasicConstraints_FlagFirst ==
    /\ pc = "BasicConstraints"
    /\ LET g == GetExtension(result[1], kBasicConstraintsOid, extension)
           p == ParseBasicConstraints(g.parsed_extension.value)
       IN  /\ extension' = g.parsed_extension
           /\ IF g.ret /\ ~p.ok
              THEN Fail("BasicConstraints", kFailedParsingBasicConstraints)
              ELSE IF g.ret
              THEN Continue("BasicConstraints", "KeyUsage",
                       [result[1] EXCEPT !.has_basic_constraints_ = TRUE,
                                         !.basic_constraints_ = p.out])
              ELSE Continue("BasicConstraints", "KeyUsage",
                       [result[1] EXCEPT !.has_basic_constraints_ = TRUE])
    /\ UNCHANGED subject_value
    /\ UNCHANGED CallerFrame

Stage_BasicConstraints ==
    /\ pc = "BasicConstraints"
    /\ LET g == GetExtension(result[1], kBasicConstraintsOid, extension)
           p == ParseBasicConstraints(g.parsed_extension.value)
       IN  /\ extension' = g.parsed_extension
           /\ IF g.ret /\ ~p.ok
              THEN Fail("BasicConstraints", kFailedParsingBasicConstraints)
              ELSE IF g.ret
              THEN Continue("BasicConstraints", "KeyUsage",
                       [result[1] EXCEPT !.has_basic_constraints_ = TRUE,
                                         !.basic_constraints_ = p.out])
              ELSE Continue("BasicConstraints", "KeyUsage", result[1])
    /\ UNCHANGED subject_value
    /\ UNCHANGED CallerFrame

\* Stage_KeyUsage without the "return nullptr" of a failed ParseKeyUsage
Stage_KeyUsage_KeepsGoing ==
    /\ pc = "KeyUsage"
    /\ LET g == GetExtension(result[1], kKeyUsageOid, extension)
           p == ParseKeyUsage(g.parsed_extension.value)
       IN  /\ extension' = g.parsed_extension
           /\ IF g.ret
              THEN Continue("KeyUsage", "ExtKeyUsage",
                       [result[1] EXCEPT !.has_key_usage_ = TRUE, !.key_usage_ = p.out])
              ELSE Continue("KeyUsage", "ExtKeyUsage", result[1])
    /\ UNCHANGED subject_value
    /\ UNCHANGED CallerFrame

Stage_KeyUsage ==
    /\ pc = "KeyUsage"
    /\ LET g == GetExtension(result[1], kKeyUsageOid, extension)
           p == ParseKeyUsage(g.parsed_extension.value)
       IN  /\ extension' = g.parsed_extension
           /\ IF g.ret /\ ~p.ok
              THEN Fail("KeyUsage", kFailedParsingKeyUsage)
              ELSE IF g.ret
              THEN Continue("KeyUsage", "ExtKeyUsage",
                       [result[1] EXCEPT !.has_key_usage_ = TRUE, !.key_usage_ = p.out])
              ELSE Continue("KeyUsage", "ExtKeyUsage", result[1])
    /\ UNCHANGED subject_value
    /\ UNCHANGED CallerFrame

Stage_ExtKeyUsage ==
    /\ pc = "ExtKeyUsage"
    /\ LET g == GetExtension(result[1], kExtKeyUsageOid, extension)
           p == ParseEKUExtension(g.parsed_extension.value)
       IN  /\ extension' = g.parsed_extension
           /\ IF g.ret /\ ~p.ok
              THEN Fail("ExtKeyUsage", kFailedParsingEku)
              ELSE IF g.ret
              THEN Continue("ExtKeyUsage", "SubjectAltName",
                       [result[1] EXCEPT !.has_extended_key_usage_ = TRUE,
                                         !.extended_key_usage_ = p.out])
              ELSE Continue("ExtKeyUsage", "SubjectAltName", result[1])
    /\ UNCHANGED subject_value
    /\ UNCHANGED CallerFrame

\* Stage_SubjectAltName with the empty-subject check moved out of the
\* "subjectAltName is present" block: an absent subjectAltName fails it too
Stage_SubjectAltName_RequiresSan ==
    /\ pc = "SubjectAltName"
    /\ LET g == GetExtension(result[1], kSubjectAltNameOid,
                             result[1].subject_alt_names_extension_)
           p == GeneralNames_Create(g.parsed_extension.value)
           looked == [result[1] EXCEPT !.subject_alt_names_extension_ = g.parsed_extension]
       IN  IF g.ret /\ ~p.ok
           THEN Fail("SubjectAltName", kFailedParsingSubjectAltName)
           ELSE IF Len(subject_value) = 0 /\ ~g.parsed_extension.critical
           THEN Fail("SubjectAltName", kSubjectAltNameNotCritical)
           ELSE IF g.ret
           THEN Continue("SubjectAltName", "NameConstraints",
                    [looked EXCEPT !.subject_alt_names_ = << p.out >>])
           ELSE Continue("SubjectAltName", "NameConstraints", looked)
    /\ UNCHANGED <<subject_value, extension>>
    /\ UNCHANGED CallerFrame

\* Stage_SubjectAltName without the empty-subject check
Stage_SubjectAltName_NoCriticalCheck ==
    /\ pc = "SubjectAltName"
    /\ LET g == GetExtension(result[1], kSubjectAltNameOid,
                             result[1].subject_alt_names_extension_)
           p == GeneralNames_Create(g.parsed_extension.value)
           looked == [result[1] EXCEPT !.subject_alt_names_extension_ = g.parsed_extension]
       IN  IF g.ret /\ ~p.ok
           THEN Fail("SubjectAltName", kFailedParsingSubjectAltName)
           ELSE IF g.ret
           THEN Continue("SubjectAltName", "NameConstraints",
                    [looked EXCEPT !.subject_alt_names_ = << p.out >>])
           ELSE Continue("SubjectAltName", "NameConstraints", looked)
    /\ UNCHANGED <<subject_value, extension>>
    /\ UNCHANGED CallerFrame

\* Stage_SubjectAltName that tests the critical flag before it parses the
\* value
Stage_SubjectAltName_CriticalityFirst ==
    /\ pc = "SubjectAltName"
    /\ LET g == GetExtension(result[1], kSubjectAltNameOid,
                             result[1].subject_alt_names_extension_)
           p == GeneralNames_Create(g.parsed_extension.value)
           looked == [result[1] EXCEPT !.subject_alt_names_extension_ = g.parsed_extension]
       IN  IF g.ret /\ Len(subject_value) = 0 /\ ~g.parsed_extension.critical
           THEN Fail("SubjectAltName", kSubjectAltNameNotCritical)
           ELSE IF g.ret /\ ~p.ok
           THEN Fail("SubjectAltName", kFailedParsingSubjectAltName)
           ELSE IF g.ret
           THEN Continue("SubjectAltName", "NameConstraints",
                    [looked EXCEPT !.subject_alt_names_ = << p.out >>])
           ELSE Continue("SubjectAltName", "NameConstraints", looked)
    /\ UNCHANGED <<subject_value, extension>>
    /\ UNCHANGED CallerFrame

\* Stage_SubjectAltName that wants a critical subjectAltName whatever the
\* subject is
Stage_SubjectAltName_AlwaysCritical ==
    /\ pc = "SubjectAltName"
    /\ LET g == GetExtension(result[1], kSubjectAltNameOid,
                             result[1].subject_alt_names_extension_)
           p == GeneralNames_Create(g.parsed_extension.value)
           looked == [result[1] EXCEPT !.subject_alt_names_extension_ = g.parsed_extension]
       IN  IF g.ret /\ ~p.ok
           THEN Fail("SubjectAltName", kFailedParsingSubjectAltName)
           ELSE IF g.ret /\ ~g.parsed_extension.critical
           THEN Fail("SubjectAltName", kSubjectAltNameNotCritical)
           ELSE IF g.ret
           THEN Continue("SubjectAltName", "NameConstraints",
                    [looked EXCEPT !.subject_alt_names_ = << p.out >>])
           ELSE Continue("SubjectAltName", "NameConstraints", looked)
    /\ UNCHANGED <<subject_value, extension>>
    /\ UNCHANGED CallerFrame

\* the lookup writes result->subject_alt_names_extension_, not |extension|
Stage_SubjectAltName ==
    /\ pc = "SubjectAltName"
    /\ LET g == GetExtension(result[1], kSubjectAltNameOid,
                             result[1].subject_alt_names_extension_)
           p == GeneralNames_Create(g.parsed_extension.value)
           looked == [result[1] EXCEPT !.subject_alt_names_extension_ = g.parsed_extension]
       IN  IF g.ret /\ ~p.ok
           THEN Fail("SubjectAltName", kFailedParsingSubjectAltName)
           ELSE IF g.ret /\ Len(subject_value) = 0 /\ ~g.parsed_extension.critical
           THEN Fail("SubjectAltName", kSubjectAltNameNotCritical)
           ELSE IF g.ret
           THEN Continue("SubjectAltName", "NameConstraints",
                    [looked EXCEPT !.subject_alt_names_ = << p.out >>])
           ELSE Continue("SubjectAltName", "NameConstraints", looked)
    /\ UNCHANGED <<subject_value, extension>>
    /\ UNCHANGED CallerFrame

Stage_NameConstraints ==
    /\ pc = "NameConstraints"
    /\ LET g == GetExtension(result[1], kNameConstraintsOid, extension)
           p == NameConstraints_Create(g.parsed_extension.value,
                                       g.parsed_extension.critical)
       IN  /\ extension' = g.parsed_extension
           /\ IF g.ret /\ ~p.ok
              THEN Fail("NameConstraints", kFailedParsingNameConstraints)
              ELSE IF g.ret
              THEN Continue("NameConstraints", "AuthorityInfoAccess",
                       [result[1] EXCEPT !.name_constraints_ = << p.out >>])
              ELSE Continue("NameConstraints", "AuthorityInfoAccess", result[1])
    /\ UNCHANGED subject_value
    /\ UNCHANGED CallerFrame

\* the lookup writes result->authority_info_access_extension_
Stage_AuthorityInfoAccess ==
    /\ pc = "AuthorityInfoAccess"
    /\ LET g == GetExtension(result[1], kAuthorityInfoAccessOid,
                             result[1].authority_info_access_extension_)
           p == ParseAuthorityInfoAccessURIs(g.parsed_extension.value)
           looked == [result[1] EXCEPT
                         !.authority_info_access_extension_ = g.parsed_extension]
       IN  IF g.ret /\ ~p.ok
           THEN Fail("AuthorityInfoAccess", kFailedParsingAia)
           ELSE IF g.ret
           THEN Continue("AuthorityInfoAccess", "CertificatePolicies",
                    [looked EXCEPT !.has_authority_info_access_ = TRUE,
                                   !.ca_issuers_uris_and_ocsp_uris_ = p.out])
           ELSE Continue("AuthorityInfoAccess", "CertificatePolicies", looked)
    /\ UNCHANGED <<subject_value, extension>>
    /\ UNCHANGED CallerFrame

Stage_CertificatePolicies ==
    /\ pc = "CertificatePolicies"
    /\ LET g == GetExtension(result[1], kCertificatePoliciesOid, extension)
           p == ParseCertificatePoliciesExtensionOids(g.parsed_extension.value)
       IN  /\ extension' = g.parsed_extension
           /\ IF g.ret /\ ~p.ok
              THEN Fail("CertificatePolicies", kFailedParsingPolicies)
              ELSE IF g.ret
              THEN Continue("CertificatePolicies", "PolicyConstraints",
                       [result[1] EXCEPT !.has_policy_oids_ = TRUE, !.policy_oids_ = p.out])
              ELSE Continue("CertificatePolicies", "PolicyConstraints", result[1])
    /\ UNCHANGED subject_value
    /\ UNCHANGED CallerFrame

\* Stage_PolicyConstraints that goes on to inhibit-any-policy, leaving policy
\* mappings out
Stage_PolicyConstraints_SkipsPolicyMappings ==
    /\ pc = "PolicyConstraints"
    /\ LET g == GetExtension(result[1], kPolicyConstraintsOid, extension)
           p == ParsePolicyConstraints(g.parsed_extension.value)
       IN  /\ extension' = g.parsed_extension
           /\ IF g.ret /\ ~p.ok
              THEN Fail("PolicyConstraints", kFailedParsingPolicyConstraints)
              ELSE IF g.ret
              THEN Continue("PolicyConstraints", "InhibitAnyPolicy",
                       [result[1] EXCEPT !.has_policy_constraints_ = TRUE,
                                         !.policy_constraints_ = p.out])
              ELSE Continue("PolicyConstraints", "InhibitAnyPolicy", result[1])
    /\ UNCHANGED subject_value
    /\ UNCHANGED CallerFrame

Stage_PolicyConstraints ==
    /\ pc = "PolicyConstraints"
    /\ LET g == GetExtension(result[1], kPolicyConstraintsOid, extension)
           p == ParsePolicyConstraints(g.parsed_extension.value)
       IN  /\ extension' = g.parsed_extension
           /\ IF g.ret /\ ~p.ok
              THEN Fail("PolicyConstraints", kFailedParsingPolicyConstraints)
              ELSE IF g.ret
              THEN Continue("PolicyConstraints", "PolicyMappings",
                       [result[1] EXCEPT !.has_policy_constraints_ = TRUE,
                                         !.policy_constraints_ = p.out])
              ELSE Continue("PolicyConstraints", "PolicyMappings", result[1])
    /\ UNCHANGED subject_value
    /\ UNCHANGED CallerFrame

\* Stage_PolicyMappings that lets a malformed value pass when the extension
\* is not critical
Stage_PolicyMappings_ToleratesNonCritical ==
    /\ pc = "PolicyMappings"
    /\ LET g == GetExtension(result[1], kPolicyMappingsOid, extension)
           p == ParsePolicyMappings(g.parsed_extension.value)
       IN  /\ extension' = g.parsed_extension
           /\ IF g.ret /\ ~p.ok /\ g.parsed_extension.critical
              THEN Fail("PolicyMappings", kFailedParsingPolicyMappings)
              ELSE IF g.ret
              THEN Continue("PolicyMappings", "InhibitAnyPolicy",
                       [result[1] EXCEPT !.has_policy_mappings_ = TRUE,
                                         !.policy_mappings_ = p.out])
              ELSE Continue("PolicyMappings", "InhibitAnyPolicy", result[1])
    /\ UNCHANGED subject_value
    /\ UNCHANGED CallerFrame

Stage_PolicyMappings ==
    /\ pc = "PolicyMappings"
    /\ LET g == GetExtension(result[1], kPolicyMappingsOid, extension)
           p == ParsePolicyMappings(g.parsed_extension.value)
       IN  /\ extension' = g.parsed_extension
           /\ IF g.ret /\ ~p.ok
              THEN Fail("PolicyMappings", kFailedParsingPolicyMappings)
              ELSE IF g.ret
              THEN Continue("PolicyMappings", "InhibitAnyPolicy",
                       [result[1] EXCEPT !.has_policy_mappings_ = TRUE,
                                         !.policy_mappings_ = p.out])
              ELSE Continue("PolicyMappings", "InhibitAnyPolicy", result[1])
    /\ UNCHANGED subject_value
    /\ UNCHANGED CallerFrame

Stage_InhibitAnyPolicy ==
    /\ pc = "InhibitAnyPolicy"
    /\ LET g == GetExtension(result[1], kInhibitAnyPolicyOid, extension)
           p == ParseInhibitAnyPolicy(g.parsed_extension.value)
       IN  /\ extension' = g.parsed_extension
           /\ IF g.ret /\ ~p.ok
              THEN Fail("InhibitAnyPolicy", kFailedParsingInhibitAnyPolicy)
              ELSE IF g.ret
              THEN Continue("InhibitAnyPolicy", "SubjectKeyIdentifier",
                       [result[1] EXCEPT !.has_inhibit_any_policy_ = TRUE,
                                         !.inhibit_any_policy_ = p.out])
              ELSE Continue("InhibitAnyPolicy", "SubjectKeyIdentifier", result[1])
    /\ UNCHANGED subject_value
    /\ UNCHANGED CallerFrame

Stage_SubjectKeyIdentifier ==
    /\ pc = "SubjectKeyIdentifier"
    /\ LET g == GetExtension(result[1], kSubjectKeyIdentifierOid, extension)
           p == ParseSubjectKeyIdentifier(g.parsed_extension.value)
       IN  /\ extension' = g.parsed_extension
           /\ IF g.ret /\ ~p.ok
              THEN Fail("SubjectKeyIdentifier", kFailedParsingSubjectKeyIdentifier)
              ELSE IF g.ret
              THEN Continue("SubjectKeyIdentifier", "AuthorityKeyIdentifier",
                       [result[1] EXCEPT !.subject_key_identifier_ = << p.out >>])
              ELSE Continue("SubjectKeyIdentifier", "AuthorityKeyIdentifier", result[1])
    /\ UNCHANGED subject_value
    /\ UNCHANGED CallerFrame

\* Stage_AuthorityKeyIdentifier that goes over the recognized extensions
\* again when the table holds an authority key identifier
Stage_AuthorityKeyIdentifier_LoopsBack ==
    /\ pc = "AuthorityKeyIdentifier"
    /\ LET g == GetExtension(result[1], kAuthorityKeyIdentifierOid, extension)
           p == ParseAuthorityKeyIdentifier(g.parsed_extension.value)
       IN  /\ extension' = g.parsed_extension
           /\ IF g.ret /\ ~p.ok
              THEN Fail("AuthorityKeyIdentifier", kFailedParsingAuthorityKeyIdentifier)
              ELSE IF g.ret
              THEN Continue("AuthorityKeyIdentifier", "BasicConstraints",
                       [result[1] EXCEPT !.authority_key_identifier_ = << p.out >>])
              ELSE Continue("AuthorityKeyIdentifier", "Complete", result[1])
    /\ UNCHANGED subject_value
    /\ UNCHANGED CallerFrame

Stage_AuthorityKeyIdentifier ==
    /\ pc = "AuthorityKeyIdentifier"
    /\ LET g == GetExtension(result[1], kAuthorityKeyIdentifierOid, extension)
           p == ParseAuthorityKeyIdentifier(g.parsed_extension.value)
       IN  /\ extension' = g.parsed_extension
           /\ IF g.ret /\ ~p.ok
              THEN Fail("AuthorityKeyIdentifier", kFailedParsingAuthorityKeyIdentifier)
              ELSE IF g.ret
              THEN Continue("AuthorityKeyIdentifier", "Complete",
                       [result[1] EXCEPT !.authority_key_identifier_ = << p.out >>])
              ELSE Continue("AuthorityKeyIdentifier", "Complete", result[1])
    /\ UNCHANGED subject_value
    /\ UNCHANGED CallerFrame

\* what a finished call leaves in the caller's log
CallRecord(object, value) ==
    [ api |-> call, errors_null |-> errors_null, object |-> object, value |-> value,
      path |-> path, errors |-> Errors, chain_before |-> chain ]

\* Create returns to a caller that called it directly: "return result;" after
\* the last stage, or the nullptr of the stage that failed
Create_Return ==
    /\ call = "Create"
    /\ pc \in {"Complete", "Failed"}
    /\ ret' = [api |-> "Create", object |-> result, value |-> result # <<>>]
    /\ calls' = Append(calls, CallRecord(result, result # <<>>))
    /\ pc' = "idle"
    /\ call' = "none"
    /\ result' = <<>>
    /\ unused_errors' = <<>>
    /\ subject_value' = <<>>
    /\ extension' = DefaultParsedExtension
    /\ UNCHANGED <<cert, edited, readers, rdata, options, chain, errors_null, errors_sink, path, lookup>>

\* CreateAndAddToVector that inserts the new certificate at the front
CreateAndAddToVector_Return_PushesFront ==
    /\ call = "CreateAndAddToVector"
    /\ pc \in {"Complete", "Failed"}
    /\ chain' = IF result = <<>> THEN chain ELSE << result[1] >> \o chain
    /\ ret' = [api |-> "CreateAndAddToVector", object |-> <<>>, value |-> result # <<>>]
    /\ calls' = Append(calls, CallRecord(result, result # <<>>))
    /\ pc' = "idle"
    /\ call' = "none"
    /\ result' = <<>>
    /\ unused_errors' = <<>>
    /\ subject_value' = <<>>
    /\ extension' = DefaultParsedExtension
    /\ UNCHANGED <<cert, edited, readers, rdata, options, errors_null, errors_sink, path, lookup>>

\* CreateAndAddToVector after its call of Create:
\* if (!cert) return false; chain->push_back(std::move(cert)); return true;
CreateAndAddToVector_Return ==
    /\ call = "CreateAndAddToVector"
    /\ pc \in {"Complete", "Failed"}
    /\ chain' = IF result = <<>> THEN chain ELSE Append(chain, result[1])
    /\ ret' = [api |-> "CreateAndAddToVector", object |-> <<>>, value |-> result # <<>>]
    /\ calls' = Append(calls, CallRecord(result, result # <<>>))
    /\ pc' = "idle"
    /\ call' = "none"
    /\ result' = <<>>
    /\ unused_errors' = <<>>
    /\ subject_value' = <<>>
    /\ extension' = DefaultParsedExtension
    /\ UNCHANGED <<cert, edited, readers, rdata, options, errors_null, errors_sink, path, lookup>>

\* the caller looks an identifier up, once, on the certificate Create
\* returned to it
CallGetExtension ==
    /\ pc = "idle"
    /\ ret.object # <<>>
    /\ lookup = NoLookup
    /\ \E oid \in AllOids, out \in {DefaultParsedExtension, StaleParsedExtension} :
          LET g == GetExtension(ret.object[1], oid, out)
          IN  lookup' = [ oid |-> oid, before |-> out, ret |-> g.ret,
                          parsed_extension |-> g.parsed_extension ]
    /\ UNCHANGED <<cert, edited, readers, rdata, options, chain, call, errors_null, errors_sink, unused_errors,
                   pc, result, subject_value, extension, path, ret, calls>>

Next ==
    \/ CallCreateAndAddToVector
    \/ CallCreate
    \/ Stage_ParseCertificate
    \/ Stage_ParseTbsCertificate
    \/ Stage_ParseSignatureAlgorithm
    \/ Stage_Subject
    \/ Stage_Issuer
    \/ Stage_ParseExtensions
    \/ Stage_BasicConstraints
    \/ Stage_KeyUsage
    \/ Stage_ExtKeyUsage
    \/ Stage_SubjectAltName
    \/ Stage_NameConstraints
    \/ Stage_AuthorityInfoAccess
    \/ Stage_CertificatePolicies
    \/ Stage_PolicyConstraints
    \/ Stage_PolicyMappings
    \/ Stage_InhibitAnyPolicy
    \/ Stage_SubjectKeyIdentifier
    \/ Stage_AuthorityKeyIdentifier
    \/ Create_Return
    \/ CreateAndAddToVector_Return
    \/ CallGetExtension

Spec == Init /\ [][Next]_vars

-----------------------------------------------------------------------------
(* What the caller's buffer holds, read off the buffer itself *)

Tbs == cert.tbs_certificate_tlv

NameOk(tlv) ==
    GetSequenceValue(tlv).ok /\ NormalizeName(GetSequenceValue(tlv).value).ok

\* envelope, TBS, signature algorithm and both names are acceptable
EarlyStagesSucceed ==
    /\ ParseCertificate(cert).ok
    /\ ParseTbsCertificate(Tbs, options).ok
    /\ ParseSignatureAlgorithm(cert.signature_algorithm_tlv) # <<>>
    /\ NameOk(Tbs.subject_tlv)
    /\ NameOk(Tbs.issuer_tlv)

HasExtensionsRegion == Tbs.extensions_tlv # NoExtensions

RegionWellFormed == HasExtensionsRegion /\ Tbs.extensions_tlv[1].wellFormed

Entries == IF HasExtensionsRegion THEN Tbs.extensions_tlv[1].entries ELSE <<>>

InputOids == {Entries[i].oid : i \in 1..Len(Entries)}

DuplicatedOid ==
    \E i, j \in 1..Len(Entries) : i # j /\ Entries[i].oid = Entries[j].oid

EntryOf(oid) == Entries[CHOOSE i \in 1..Len(Entries) : Entries[i].oid = oid]

SubjectIsEmpty == Len(GetSequenceValue(Tbs.subject_tlv).value) = 0

\* the bytes are a value the extension parsers accept
ValueAccepted(value) == DecodeExtension("any", value).ok

\* every recognized extension of the region other than those in except
\* carries a value its parser accepts
RecognizedAccepted(except) ==
    \A i \in 1..Len(Entries) :
        Entries[i].oid \in RecognizedOidSet \ except
            => ValueAccepted(Entries[i].value)

\* the extensions region, when there is one, yields a table
TableBuilt == HasExtensionsRegion => RegionWellFormed /\ ~DuplicatedOid

\* the error identifier a finished call reported last, "" when none
Reported(r) == IF r.errors = <<>> THEN "" ELSE r.errors[Len(r.errors)]

Finished == {calls[i] : i \in 1..Len(calls)}

\* the stages of a construction over a buffer without extensions region
EarlyPath ==
    << "ParseCertificate", "ParseTbsCertificate", "ParseSignatureAlgorithm",
       "Subject", "Issuer" >>

\* the stages of a construction that runs to completion over a buffer with
\* an extensions region
FullPath == EarlyPath \o << "ParseExtensions" >> \o
    << "BasicConstraints", "KeyUsage", "ExtKeyUsage", "SubjectAltName",
       "NameConstraints", "AuthorityInfoAccess", "CertificatePolicies",
       "PolicyConstraints", "PolicyMappings", "InhibitAnyPolicy",
       "SubjectKeyIdentifier", "AuthorityKeyIdentifier" >>

\* the stage that handles a recognized identifier, and the error it reports
StageOf(oid) == FullPath[Len(EarlyPath) + 1 + OidRank(oid)]

ErrorOf(oid) ==
    << kFailedParsingBasicConstraints, kFailedParsingKeyUsage, kFailedParsingEku,
       kFailedParsingSubjectAltName, kFailedParsingNameConstraints,
       kFailedParsingAia, kFailedParsingPolicies, kFailedParsingPolicyConstraints,
       kFailedParsingPolicyMappings, kFailedParsingInhibitAnyPolicy,
       kFailedParsingSubjectKeyIdentifier,
       kFailedParsingAuthorityKeyIdentifier >>[OidRank(oid)]

\* the typed value, or the presence indicator, an object holds for a
\* recognized identifier
Present(obj, oid) ==
    CASE oid = kBasicConstraintsOid -> obj.has_basic_constraints_
      [] oid = kKeyUsageOid -> obj.has_key_usage_
      [] oid = kExtKeyUsageOid -> obj.has_extended_key_usage_
      [] oid = kSubjectAltNameOid -> obj.subject_alt_names_ # <<>>
      [] oid = kNameConstraintsOid -> obj.name_constraints_ # <<>>
      [] oid = kAuthorityInfoAccessOid -> obj.has_authority_info_access_
      [] oid = kCertificatePoliciesOid -> obj.has_policy_oids_
      [] oid = kPolicyConstraintsOid -> obj.has_policy_constraints_
      [] oid = kPolicyMappingsOid -> obj.has_policy_mappings_
      [] oid = kInhibitAnyPolicyOid -> obj.has_inhibit_any_policy_
      [] oid = kSubjectKeyIdentifierOid -> obj.subject_key_identifier_ # <<>>
      [] oid = kAuthorityKeyIdentifierOid -> obj.authority_key_identifier_ # <<>>

TypedValue(obj, oid) ==
    CASE oid = kBasicConstraintsOid -> obj.basic_constraints_
      [] oid = kKeyUsageOid -> obj.key_usage_
      [] oid = kExtKeyUsageOid -> obj.extended_key_usage_
      [] oid = kSubjectAltNameOid ->
            IF obj.subject_alt_names_ = <<>> THEN <<>> ELSE obj.subject_alt_names_[1]
      [] oid = kNameConstraintsOid ->
            IF obj.name_constraints_ = <<>> THEN <<>> ELSE obj.name_constraints_[1]
      [] oid = kAuthorityInfoAccessOid -> obj.ca_issuers_uris_and_ocsp_uris_
      [] oid = kCertificatePoliciesOid -> obj.policy_oids_
      [] oid = kPolicyConstraintsOid -> obj.policy_constraints_
      [] oid = kPolicyMappingsOid -> obj.policy_mappings_
      [] oid = kInhibitAnyPolicyOid -> obj.inhibit_any_policy_
      [] oid = kSubjectKeyIdentifierOid ->
            IF obj.subject_key_identifier_ = <<>> THEN <<>>
            ELSE obj.subject_key_identifier_[1]
      [] oid = kAuthorityKeyIdentifierOid ->
            IF obj.authority_key_identifier_ = <<>> THEN <<>>
            ELSE obj.authority_key_identifier_[1]

-----------------------------------------------------------------------------
(* Properties *)

\* the object holds what every stage of its construction produced
Populated(obj) ==
    /\ obj.tbs_ = ParseTbsCertificate(Tbs, options).tbs
    /\ obj.signature_algorithm_ = ParseSignatureAlgorithm(cert.signature_algorithm_tlv)
    /\ obj.normalized_subject_ =
           NormalizeName(GetSequenceValue(Tbs.subject_tlv).value).normalized
    /\ obj.normalized_issuer_ =
           NormalizeName(GetSequenceValue(Tbs.issuer_tlv).value).normalized
    /\ DOMAIN obj.extensions_ = InputOids
    /\ \A oid \in RecognizedOidSet \cap InputOids :
           Present(obj, oid) /\ TypedValue(obj, oid) # <<>>

\* C1: Create is all-or-nothing.  A construction that failed holds no object,
\* and every call that handed an object back ran every stage of its path with
\* success: envelope, TBS, signature algorithm, both names, the extension
\* table, the parser of every recognized extension present, and the
\* criticality check of a present subjectAltName; the object is populated by
\* all of them.
C1_AllOrNothing ==
    /\ pc = "Failed" => result = <<>>
    /\ \A r \in Finished :
        /\ r.value = (r.object # <<>>)
        /\ r.object # <<>> =>
            /\ EarlyStagesSucceed
            /\ TableBuilt
            /\ RecognizedAccepted({})
            /\ (kSubjectAltNameOid \in InputOids /\ SubjectIsEmpty)
                   => EntryOf(kSubjectAltNameOid).critical
            /\ r.path = IF HasExtensionsRegion THEN FullPath ELSE EarlyPath
            /\ r.errors = <<>>
            /\ Populated(r.object[1])

\* a call returned an object for a buffer with recognized extensions
C1_Witness ==
    \E r \in Finished :
        r.object # <<>> /\ InputOids \cap RecognizedOidSet # {}

\* empty subject, no subjectAltName, every other stage succeeding
EmptySubjectWithoutSan ==
    /\ SubjectIsEmpty
    /\ kSubjectAltNameOid \notin InputOids
    /\ EarlyStagesSucceed
    /\ TableBuilt
    /\ RecognizedAccepted({})

\* C2 as stated: a certificate with an empty subject and no subjectAltName
\* extension (extensions region absent, or present without that identifier),
\* all other stages succeeding, is rejected with the criticality error.
C2_AsStated ==
    \A r \in Finished :
        EmptySubjectWithoutSan
            => r.object = <<>> /\ Reported(r) = kSubjectAltNameNotCritical

\* C2, amended: such a certificate is accepted.  Create returns an object and
\* reports no error; the empty-subject check runs only when a subjectAltName
\* extension is present.
C2_EmptySubjectWithoutSanAccepted ==
    \A r \in Finished :
        EmptySubjectWithoutSan => r.object # <<>> /\ r.errors = <<>>

\* a call finished on an empty-subject buffer whose extensions region is
\* present, not empty, and without subjectAltName
C2_Witness ==
    \E r \in Finished : EmptySubjectWithoutSan /\ Len(Entries) > 0

\* empty subject and a subjectAltName whose value parses, every other stage
\* succeeding
EmptySubjectWithSan ==
    /\ SubjectIsEmpty
    /\ kSubjectAltNameOid \in InputOids
    /\ EarlyStagesSucceed
    /\ TableBuilt
    /\ RecognizedAccepted({})

\* C3: with an empty subject and a well-formed subjectAltName, every other
\* stage succeeding, Create fails with kSubjectAltNameNotCritical when the
\* extension is not critical and succeeds when it is critical.
C3_EmptySubjectSanCriticality ==
    \A r \in Finished :
        EmptySubjectWithSan =>
            IF EntryOf(kSubjectAltNameOid).critical
            THEN r.object # <<>> /\ r.errors = <<>>
            ELSE r.object = <<>> /\ r.errors = << kSubjectAltNameNotCritical >>

\* a call finished on an empty-subject buffer with a non-critical
\* subjectAltName and a second extension
C3_Witness ==
    \E r \in Finished :
        /\ EmptySubjectWithSan
        /\ ~EntryOf(kSubjectAltNameOid).critical
        /\ Len(Entries) > 1

\* C4: a buffer whose extensions region repeats an identifier never yields
\* an object, whichever identifier it is and whatever the two records carry.
C4_DuplicateNeverAccepted ==
    \A r \in Finished : DuplicatedOid => r.object = <<>> /\ ~r.value

\* a call reached the extension table builder on a region that repeats an
\* identifier with differing criticality and value
C4_Witness ==
    \E r \in Finished :
        /\ "ParseExtensions" \in Range(r.path)
        /\ RegionWellFormed
        /\ \E i, j \in 1..Len(Entries) :
              /\ i # j
              /\ Entries[i].oid = Entries[j].oid
              /\ Entries[i].value # Entries[j].value
              /\ Entries[i].critical # Entries[j].critical

\* the construction failed at the table builder because of a repeated
\* identifier in an otherwise well-formed region
FailedOnDuplicate(r) ==
    /\ r.object = <<>>
    /\ RegionWellFormed
    /\ DuplicatedOid
    /\ EarlyStagesSucceed

\* the construction failed at the table builder on a malformed region
FailedOnMalformedRegion(r) ==
    /\ r.object = <<>>
    /\ HasExtensionsRegion
    /\ ~RegionWellFormed
    /\ EarlyStagesSucceed

\* C5 as stated: a failure caused by a repeated identifier is reported under
\* a kind of its own, distinct from the kind a malformed region is reported
\* under (kFailedParsingExtensions).
C5_AsStated ==
    \A r \in Finished :
        FailedOnDuplicate(r) => Reported(r) # kFailedParsingExtensions

\* C5, amended: a failure caused by a repeated identifier is reported as
\* kFailedParsingExtensions, the same kind a malformed region is reported
\* under; Create has no separate kind for duplicates.
C5_DuplicateReportedAsFailedParsingExtensions ==
    \A r \in Finished :
        (FailedOnDuplicate(r) \/ FailedOnMalformedRegion(r))
            => r.errors = << kFailedParsingExtensions >>

\* a call failed on a repeated recognized identifier
C5_Witness ==
    \E r \in Finished :
        /\ FailedOnDuplicate(r)
        /\ \E i \in 1..Len(Entries) : Entries[i].oid \in RecognizedOidSet

\* the early stages succeed and the TBS has no extensions region
NoExtensionsRegionOk == ~HasExtensionsRegion /\ EarlyStagesSucceed

\* C6: when envelope, TBS, signature algorithm and both names succeed and the
\* TBS has no extensions region, Create succeeds after those five stages
\* (neither the table builder nor an extension parser runs), the table is
\* empty, every presence indicator is false or empty, and GetExtension
\* answers false for every identifier.
C6_NoExtensionsRegion ==
    /\ \A r \in Finished :
        NoExtensionsRegionOk =>
            /\ r.object # <<>>
            /\ r.path = EarlyPath
            /\ DOMAIN r.object[1].extensions_ = {}
            /\ r.object[1].subject_alt_names_extension_ = DefaultParsedExtension
            /\ r.object[1].authority_info_access_extension_ = DefaultParsedExtension
            /\ \A oid \in RecognizedOidSet :
                  ~Present(r.object[1], oid) /\ TypedValue(r.object[1], oid) = <<>>
            /\ \A oid \in AllOids :
                  ~GetExtension(r.object[1], oid, DefaultParsedExtension).ret
    /\ (NoExtensionsRegionOk /\ lookup.oid # "") => ~lookup.ret

\* the caller looked a recognized identifier up on a certificate built from
\* a buffer without extensions region
C6_Witness ==
    /\ NoExtensionsRegionOk
    /\ lookup.oid \in RecognizedOidSet
    /\ ret.object # <<>>

\* every recognized extension handled before oid carries an accepted value
EarlierAccepted(oid) ==
    \A i \in 1..Len(Entries) :
        (Entries[i].oid \in RecognizedOidSet
            /\ OidRank(Entries[i].oid) < OidRank(oid))
                => ValueAccepted(Entries[i].value)

\* the empty-subject check of a non-critical subjectAltName fails before the
\* stage of oid is reached
SanCheckPrecedes(oid) ==
    /\ OidRank(kSubjectAltNameOid) < OidRank(oid)
    /\ kSubjectAltNameOid \in InputOids
    /\ SubjectIsEmpty
    /\ ~EntryOf(kSubjectAltNameOid).critical

\* C7: a recognized extension present in the table with a value its parser
\* refuses makes Create return no object, critical or not; when its parser is
\* the one that ran and failed (no earlier stage failed first) the error
\* reported is that extension's own.
C7_MalformedRecognizedExtension ==
    \A r \in Finished : \A i \in 1..Len(Entries) :
        LET oid == Entries[i].oid
        IN  ( /\ oid \in RecognizedOidSet
              /\ ~ValueAccepted(Entries[i].value)
              /\ TableBuilt
              /\ EarlyStagesSucceed ) =>
                /\ r.object = <<>>
                /\ StageOf(oid) \in Range(r.path) => r.errors = << ErrorOf(oid) >>
                /\ (EarlierAccepted(oid) /\ ~SanCheckPrecedes(oid))
                       => StageOf(oid) \in Range(r.path)

\* a call failed in the last extension stage on a critical authority key
\* identifier with a refused value
C7_Witness ==
    \E r \in Finished :
        /\ EarlyStagesSucceed /\ TableBuilt
        /\ kAuthorityKeyIdentifierOid \in InputOids
        /\ EntryOf(kAuthorityKeyIdentifierOid).critical
        /\ ~ValueAccepted(EntryOf(kAuthorityKeyIdentifierOid).value)
        /\ r.errors = << kFailedParsingAuthorityKeyIdentifier >>

\* C8: on a certificate Create returned, GetExtension(oid) answers true with
\* exactly the value bytes and the critical flag the buffer carries for oid,
\* for every identifier of the extensions region, recognized or not, and
\* answers false for every other identifier.
C8_GetExtensionReturnsInput ==
    lookup.oid # "" =>
        IF lookup.oid \in InputOids
        THEN /\ lookup.ret
             /\ lookup.parsed_extension =
                    ParsedExtension(lookup.oid, EntryOf(lookup.oid).value,
                                    EntryOf(lookup.oid).critical)
        ELSE ~lookup.ret

\* the caller looked a critical unrecognized extension up and found it
C8_Witness ==
    /\ lookup.oid \in UnrecognizedOids
    /\ lookup.ret
    /\ lookup.parsed_extension.critical
    /\ Len(Entries) > 1

\* C9: CreateAndAddToVector returns true exactly when Create succeeds.  On
\* failure it returns false and the chain is as it was; on success the chain
\* is the old chain followed by the one new certificate.
C9_CreateAndAddToVector ==
    \A i \in 1..Len(calls) :
        calls[i].api = "CreateAndAddToVector" =>
            /\ calls[i].value = (calls[i].object # <<>>)
            /\ calls[i].value = (calls[i].path \in {EarlyPath, FullPath}
                                    /\ calls[i].errors = <<>>)
            /\ \A j \in 1..Len(calls) :
                  calls[j].api = "Create" => calls[i].value = (calls[j].object # <<>>)
            /\ chain = IF calls[i].value
                       THEN Append(calls[i].chain_before, calls[i].object[1])
                       ELSE calls[i].chain_before

\* CreateAndAddToVector appended a certificate with extensions to a chain
\* that already held one
C9_Witness ==
    /\ Len(calls) > 0
    /\ calls[1].api = "CreateAndAddToVector"
    /\ calls[1].value
    /\ Len(calls[1].chain_before) = 1
    /\ Len(chain) = 2
    /\ Len(Entries) > 0

\* C10: the error sink does not influence the outcome.  The call made with
\* a CertErrors and the call made with nullptr on the same buffer and options
\* run the same stages and return the same result: both nothing, or objects
\* equal field for field.
C10_ErrorsDoNotInfluenceOutcome ==
    \A r1, r2 \in Finished :
        r1.errors_null # r2.errors_null =>
            /\ r1.path = r2.path
            /\ r1.object = r2.object
            /\ r1.value = r2.value

\* both calls are finished, the first with nullptr, and returned an object
\* built from a region with extensions
C10_Witness ==
    /\ Len(calls) = 2
    /\ calls[1].errors_null
    /\ ~calls[2].errors_null
    /\ calls[2].api = "Create"
    /\ calls[2].object # <<>>
    /\ Len(Entries) > 0

-----------------------------------------------------------------------------
(* What each stage does with the caller's buffer, read off the buffer *)

\* the stages Create goes through on this buffer when none of them fails
Pipeline == IF HasExtensionsRegion THEN FullPath ELSE EarlyPath

\* the recognized identifier each extension stage looks up
StageOids ==
    [stage \in {StageOf(o) : o \in RecognizedOidSet} |->
        CHOOSE o \in RecognizedOidSet : StageOf(o) = stage]

\* the identifier the stage reports on this buffer, "" when the stage succeeds
StageError(stage) ==
    CASE stage = "ParseCertificate" ->
            IF ParseCertificate(cert).ok THEN "" ELSE kFailedParsingCertificate
      [] stage = "ParseTbsCertificate" ->
            IF ParseTbsCertificate(Tbs, options).ok THEN ""
            ELSE kFailedParsingTbsCertificate
      [] stage = "ParseSignatureAlgorithm" ->
            IF ParseSignatureAlgorithm(cert.signature_algorithm_tlv) # <<>> THEN ""
            ELSE kFailedParsingSignatureAlgorithm
      [] stage = "Subject" ->
            IF ~GetSequenceValue(Tbs.subject_tlv).ok THEN kFailedReadingIssuerOrSubject
            ELSE IF ~NameOk(Tbs.subject_tlv) THEN kFailedNormalizingSubject
            ELSE ""
      [] stage = "Issuer" ->
            IF ~GetSequenceValue(Tbs.issuer_tlv).ok THEN kFailedReadingIssuerOrSubject
            ELSE IF ~NameOk(Tbs.issuer_tlv) THEN kFailedNormalizingIssuer
            ELSE ""
      [] stage = "ParseExtensions" ->
            IF RegionWellFormed /\ ~DuplicatedOid THEN "" ELSE kFailedParsingExtensions
      [] stage = "SubjectAltName" ->
            IF kSubjectAltNameOid \notin InputOids THEN ""
            ELSE IF ~ValueAccepted(EntryOf(kSubjectAltNameOid).value)
            THEN kFailedParsingSubjectAltName
            ELSE IF SubjectIsEmpty /\ ~EntryOf(kSubjectAltNameOid).critical
            THEN kSubjectAltNameNotCritical
            ELSE ""
      [] OTHER ->
            LET oid == StageOids[stage]
            IN  IF oid \in InputOids /\ ~ValueAccepted(EntryOf(oid).value)
                THEN ErrorOf(oid) ELSE ""

\* position in Pipeline of the first stage that fails on this buffer, 0 when
\* none does
FirstFailure ==
    LET failing == {k \in 1..Len(Pipeline) : StageError(Pipeline[k]) # ""}
    IN  IF failing = {} THEN 0
        ELSE CHOOSE k \in failing : \A j \in failing : k <= j

\* the stages a construction over this buffer is to run, and what it is to
\* report
ExpectedPath ==
    IF FirstFailure = 0 THEN Pipeline ELSE SubSeq(Pipeline, 1, FirstFailure)

ExpectedErrors ==
    IF FirstFailure = 0 THEN <<>> ELSE << StageError(Pipeline[FirstFailure]) >>

\* a caller that has just got a call's answer and has looked nothing up yet
JustReturned == pc = "idle" /\ lookup = NoLookup

StagePositions ==
    [stage \in Range(FullPath) |-> CHOOSE k \in 1..Len(FullPath) : FullPath[k] = stage]

\* every stage before position k succeeds on this buffer
SucceedBefore(k) == \A j \in 1..(k - 1) : StageError(FullPath[j]) = ""

\* the stages run so far are the first stages of the fixed order, and each
\* of them but a failed last one succeeded
C12_StagesInOrder ==
    /\ pc \in Range(FullPath) =>
          /\ path = SubSeq(FullPath, 1, StagePositions[pc] - 1)
          /\ SucceedBefore(StagePositions[pc])
          /\ StagePositions[pc] > Len(EarlyPath) => HasExtensionsRegion
          /\ Errors = <<>>
          /\ result # <<>>
    /\ pc = "Failed" =>
          /\ path # <<>>
          /\ path = SubSeq(Pipeline, 1, Len(path))
          /\ SucceedBefore(Len(path))
          /\ StageError(path[Len(path)]) # ""
          /\ result = <<>>
    /\ pc = "Complete" =>
          /\ path = Pipeline
          /\ SucceedBefore(Len(path) + 1)

\* a step of Create goes from a stage to the next one of the fixed order, to
\* Complete or to Failed, and a failed construction does nothing more than
\* return
C12_NoBacktracking ==
    /\ (pc \in Range(FullPath) /\ pc' \in Range(FullPath)) =>
          StagePositions[pc'] = StagePositions[pc] + 1
    /\ pc \in Range(FullPath) => pc' \in Range(FullPath) \cup {"Complete", "Failed"}
    /\ pc = "Failed" =>
          /\ pc' = "idle"
          /\ path' = path
          /\ result' = <<>>
          /\ errors_sink' = errors_sink

\* C12: Create runs its stages in one fixed order (envelope, TBS, signature
\* algorithm, subject, issuer, extension table, then the recognized
\* extensions in the order of its lookups).  A stage runs only when every
\* earlier stage has succeeded; once a stage has failed no later stage runs
\* and the construction stays failed until Create returns.
C12_FixedOrderNoBacktracking ==
    []C12_StagesInOrder /\ [][C12_NoBacktracking]_vars

\* a construction failed in the name constraints stage with later extensions
\* still in the table
C12_Witness ==
    /\ pc = "Failed"
    /\ path[Len(path)] = "NameConstraints"
    /\ \E i \in 1..Len(Entries) :
          /\ Entries[i].oid \in RecognizedOidSet
          /\ OidRank(Entries[i].oid) > OidRank(kNameConstraintsOid)

\* the error identifiers Create itself adds
CreateErrorIds ==
    { kFailedParsingCertificate, kFailedParsingTbsCertificate,
      kFailedParsingSignatureAlgorithm, kFailedReadingIssuerOrSubject,
      kFailedNormalizingSubject, kFailedNormalizingIssuer, kFailedParsingExtensions,
      kFailedParsingBasicConstraints, kFailedParsingKeyUsage, kFailedParsingEku,
      kFailedParsingSubjectAltName, kSubjectAltNameNotCritical,
      kFailedParsingNameConstraints, kFailedParsingAia, kFailedParsingPolicies,
      kFailedParsingPolicyConstraints, kFailedParsingPolicyMappings,
      kFailedParsingInhibitAnyPolicy, kFailedParsingAuthorityKeyIdentifier,
      kFailedParsingSubjectKeyIdentifier }

\* C13: a failed Create adds exactly one of Create's own error identifiers,
\* the one of the first stage, in the order of the stages, that fails on the
\* buffer; a successful Create adds none.  This holds when Create is about to
\* return and in what the caller finds after the return.
C13_OneErrorOfFirstFailingStage ==
    /\ pc = "Failed" =>
          /\ Len(Errors) = 1
          /\ Errors[1] \in CreateErrorIds
          /\ Errors = ExpectedErrors
          /\ path = ExpectedPath
    /\ pc = "Complete" => Errors = <<>> /\ ExpectedErrors = <<>>
    /\ \A r \in Finished :
          /\ r.object = <<>> => Len(r.errors) = 1 /\ r.errors[1] \in CreateErrorIds
          /\ r.object # <<>> => r.errors = <<>>

\* a call failed on a buffer on which a later stage fails as well, and has
\* returned
C13_Witness ==
    /\ pc = "idle"
    /\ \E r \in Finished :
          /\ ~r.errors_null
          /\ r.object = <<>>
          /\ r.path = ExpectedPath
          /\ \E k \in (FirstFailure + 1)..Len(Pipeline) : StageError(Pipeline[k]) # ""

-----------------------------------------------------------------------------
(* A caller that parses a buffer, edits an unrecognized extension of it, and
   parses the edited buffer *)

\* the buffer c with the extensions region replaced
WithExtensions(c, wellFormed, entries) ==
    [c EXCEPT !.tbs_certificate_tlv.extensions_tlv = ExtensionsRegion(wellFormed, entries)]

\* the region of the buffer is well formed, or there is none yet
RegionFlag == IF HasExtensionsRegion THEN Tbs.extensions_tlv[1].wellFormed ELSE TRUE

\* the caller has parsed the buffer once and has not edited it; the buffer
\* repeats no identifier
MayEdit ==
    /\ pc = "idle"
    /\ Len(calls) = 1
    /\ edited = <<>>
    /\ ~DuplicatedOid

EditFrame ==
    <<readers, rdata, options, chain, call, errors_null, errors_sink, unused_errors, pc, result,
      subject_value, extension, path, ret, calls, lookup>>

\* the first call of this caller: ParsedCertificate::Create(buffer, {}, &errors)
CallCreateFirst ==
    /\ calls = <<>>
    /\ EnterCreate("Create", FALSE)

\* the caller appends an extension with an unrecognized identifier, creating
\* the extensions region when the buffer has none
AddUnrecognizedExtension ==
    /\ MayEdit
    /\ InputOids \cap UnrecognizedOids = {}
    /\ \E e \in ExtensionRecords :
          /\ e.oid \in UnrecognizedOids
          /\ cert' = WithExtensions(cert, RegionFlag, Append(Entries, e))
    /\ edited' = << cert >>
    /\ UNCHANGED EditFrame

\* the caller takes an extension with an unrecognized identifier out
RemoveUnrecognizedExtension ==
    /\ MayEdit
    /\ \E i \in 1..Len(Entries) :
          /\ Entries[i].oid \in UnrecognizedOids
          /\ cert' = WithExtensions(cert, RegionFlag,
                        SubSeq(Entries, 1, i - 1) \o SubSeq(Entries, i + 1, Len(Entries)))
    /\ edited' = << cert >>
    /\ UNCHANGED EditFrame

\* the caller changes the value or the critical flag of an extension with an
\* unrecognized identifier
ChangeUnrecognizedExtension ==
    /\ MayEdit
    /\ \E i \in 1..Len(Entries), e \in ExtensionRecords :
          /\ Entries[i].oid \in UnrecognizedOids
          /\ e.oid = Entries[i].oid
          /\ e # Entries[i]
          /\ cert' = WithExtensions(cert, RegionFlag, [Entries EXCEPT ![i] = e])
    /\ edited' = << cert >>
    /\ UNCHANGED EditFrame

\* the second call of this caller, on the edited buffer
CallCreateOnEdited ==
    /\ edited # <<>>
    /\ CallCreate

InitEdit ==
    /\ Init
    /\ cert \in ExtCerts
    /\ options = DefaultOptions

NextEdit ==
    \/ CallCreateFirst
    \/ AddUnrecognizedExtension
    \/ RemoveUnrecognizedExtension
    \/ ChangeUnrecognizedExtension
    \/ CallCreateOnEdited
    \/ Stage_ParseCertificate
    \/ Stage_ParseTbsCertificate
    \/ Stage_ParseSignatureAlgorithm
    \/ Stage_Subject
    \/ Stage_Issuer
    \/ Stage_ParseExtensions
    \/ Stage_BasicConstraints
    \/ Stage_KeyUsage
    \/ Stage_ExtKeyUsage
    \/ Stage_SubjectAltName
    \/ Stage_NameConstraints
    \/ Stage_AuthorityInfoAccess
    \/ Stage_CertificatePolicies
    \/ Stage_PolicyConstraints
    \/ Stage_PolicyMappings
    \/ Stage_InhibitAnyPolicy
    \/ Stage_SubjectKeyIdentifier
    \/ Stage_AuthorityKeyIdentifier
    \/ Create_Return

SpecEdit == InitEdit /\ [][NextEdit]_vars

\* the members of a ParsedCertificate that are neither the buffer and its
\* regions nor the extension table
DerivedMembers ==
    DOMAIN NewParsedCertificate
        \ {"cert_data_", "tbs_certificate_tlv_", "tbs_", "extensions_"}

\* the extension records of a buffer
EntriesOf(c) ==
    IF c.tbs_certificate_tlv.extensions_tlv = NoExtensions THEN <<>>
    ELSE c.tbs_certificate_tlv.extensions_tlv[1].entries

\* the object holds every unrecognized extension of buffer c as it stands in c
RetainsUnrecognized(obj, c) ==
    \A i \in 1..Len(EntriesOf(c)) :
        LET e == EntriesOf(c)[i]
        IN  e.oid \in UnrecognizedOids =>
                /\ e.oid \in DOMAIN obj.extensions_
                /\ obj.extensions_[e.oid] = ParsedExtension(e.oid, e.value, e.critical)

\* C14: an extension whose identifier Create does not recognize never changes
\* the outcome or a typed member.  Between a buffer without repeated
\* identifiers and the same buffer with an unrecognized extension added,
\* removed or changed (critical or not), Create fails or succeeds alike and
\* with the same error; two objects differ at most in the buffer, its regions
\* and the table entry of that identifier; and each object holds the
\* unrecognized extensions of its buffer in its table.
C14_UnrecognizedExtensionsIgnored ==
    (Len(calls) = 2 /\ edited # <<>>) =>
        /\ (calls[1].object = <<>>) = (calls[2].object = <<>>)
        /\ calls[1].errors = calls[2].errors
        /\ EntriesOf(edited[1]) # <<>> => calls[1].path = calls[2].path
        /\ calls[1].object # <<>> =>
              LET before == calls[1].object[1]
                  after == calls[2].object[1]
              IN  /\ \A m \in DerivedMembers : before[m] = after[m]
                  /\ before.tbs_.subject_tlv = after.tbs_.subject_tlv
                  /\ before.tbs_.issuer_tlv = after.tbs_.issuer_tlv
                  /\ \A oid \in RecognizedOidSet :
                        /\ (oid \in DOMAIN before.extensions_)
                               = (oid \in DOMAIN after.extensions_)
                        /\ oid \in DOMAIN before.extensions_ =>
                               before.extensions_[oid] = after.extensions_[oid]
                  /\ RetainsUnrecognized(before, edited[1])
                  /\ RetainsUnrecognized(after, cert)

\* Create succeeded on a buffer with a recognized extension both before and
\* after a critical unrecognized extension was added to it
C14_Witness ==
    /\ Len(calls) = 2
    /\ edited # <<>>
    /\ calls[2].object # <<>>
    /\ InputOids \cap RecognizedOidSet # {}
    /\ \E i \in 1..Len(Entries) :
          Entries[i].oid \in UnrecognizedOids /\ Entries[i].critical
    /\ \A i \in 1..Len(EntriesOf(edited[1])) :
          EntriesOf(edited[1])[i].oid \notin UnrecognizedOids

-----------------------------------------------------------------------------
(* Threads that call GetExtension at the same time on the certificate Create
   handed back; each thread has its own ParsedExtension to receive the answer *)

\* the buffers whose certificates the threads read: without extensions
\* region, and with regions that hold some of the identifiers looked up
ReaderCerts ==
    { Certificate(TRUE, "ok", "sha256WithRSAEncryption", GoodName, GoodName, e) :
        e \in { NoExtensions,
                ExtensionsRegion(TRUE,
                    << [oid |-> kBasicConstraintsOid, critical |-> FALSE, value |-> <<1>>] >>),
                ExtensionsRegion(TRUE,
                    << [oid |-> kSubjectAltNameOid, critical |-> TRUE, value |-> <<1>>],
                       [oid |-> "unrecognized", critical |-> TRUE, value |-> <<0>>] >>) } }

\* the identifiers the threads look up
ReaderOids == {kBasicConstraintsOid, kSubjectAltNameOid} \cup UnrecognizedOids

ReaderFrame ==
    <<cert, edited, rdata, options, chain, call, errors_null, errors_sink, unused_errors,
      pc, result, subject_value, extension, path, calls, lookup>>

\* thread r calls GetExtension(extension_oid, &parsed_extension) on the
\* certificate
Reader_Call(r) ==
    /\ pc = "idle"
    /\ ret.object # <<>>
    /\ readers[r].pc = "idle"
    /\ \E oid \in ReaderOids :
          readers' = [readers EXCEPT ![r] =
                         [ pc |-> "CheckExtensionsTlv", extension_oid |-> oid,
                           before |-> StaleParsedExtension,
                           parsed_extension |-> StaleParsedExtension,
                           it |-> "", ret |-> FALSE ]]
    /\ UNCHANGED ret
    /\ UNCHANGED ReaderFrame

\* if (!tbs_.extensions_tlv) return false;
Reader_CheckExtensionsTlv(r) ==
    /\ readers[r].pc = "CheckExtensionsTlv"
    /\ readers' = [readers EXCEPT ![r].pc =
                      IF ret.object[1].tbs_.extensions_tlv = NoExtensions
                      THEN "Returned" ELSE "Find"]
    /\ UNCHANGED ret
    /\ UNCHANGED ReaderFrame

\* auto it = extensions_.find(extension_oid);
\* if (it == extensions_.end()) { *parsed_extension = ParsedExtension(); return false; }
Reader_Find(r) ==
    /\ readers[r].pc = "Find"
    /\ readers' = [readers EXCEPT ![r] =
                      IF readers[r].extension_oid \notin DOMAIN ret.object[1].extensions_
                      THEN [@ EXCEPT !.parsed_extension = DefaultParsedExtension,
                                     !.pc = "Returned"]
                      ELSE [@ EXCEPT !.it = readers[r].extension_oid, !.pc = "Copy"]]
    /\ UNCHANGED ret
    /\ UNCHANGED ReaderFrame

\* Reader_Copy that hands the entry over through a member of the certificate
Reader_Copy_ThroughMember(r) ==
    /\ readers[r].pc = "Copy"
    /\ ret' = [ret EXCEPT !.object[1].subject_alt_names_extension_ =
                              ret.object[1].extensions_[readers[r].it]]
    /\ readers' = [readers EXCEPT ![r] =
                      [@ EXCEPT !.parsed_extension =
                                    ret.object[1].subject_alt_names_extension_,
                                !.ret = TRUE, !.pc = "Returned"]]
    /\ UNCHANGED ReaderFrame

\* *parsed_extension = it->second; return true;
Reader_Copy(r) ==
    /\ readers[r].pc = "Copy"
    /\ readers' = [readers EXCEPT ![r] =
                      [@ EXCEPT !.parsed_extension =
                                    ret.object[1].extensions_[readers[r].it],
                                !.ret = TRUE, !.pc = "Returned"]]
    /\ UNCHANGED ret
    /\ UNCHANGED ReaderFrame

InitReaders ==
    /\ Init
    /\ cert \in ReaderCerts
    /\ options = DefaultOptions

NextReaders ==
    \/ CallCreateFirst
    \/ Stage_ParseCertificate
    \/ Stage_ParseTbsCertificate
    \/ Stage_ParseSignatureAlgorithm
    \/ Stage_Subject
    \/ Stage_Issuer
    \/ Stage_ParseExtensions
    \/ Stage_BasicConstraints
    \/ Stage_KeyUsage
    \/ Stage_ExtKeyUsage
    \/ Stage_SubjectAltName
    \/ Stage_NameConstraints
    \/ Stage_AuthorityInfoAccess
    \/ Stage_CertificatePolicies
    \/ Stage_PolicyConstraints
    \/ Stage_PolicyMappings
    \/ Stage_InhibitAnyPolicy
    \/ Stage_SubjectKeyIdentifier
    \/ Stage_AuthorityKeyIdentifier
    \/ Create_Return
    \/ \E r \in Readers : Reader_Call(r)
    \/ \E r \in Readers : Reader_CheckExtensionsTlv(r)
    \/ \E r \in Readers : Reader_Find(r)
    \/ \E r \in Readers : Reader_Copy(r)

SpecReaders == InitReaders /\ [][NextReaders]_vars

\* C15: a ParsedCertificate is not changed after construction.  However the
\* GetExtension calls of the readers of one certificate interleave, the
\* certificate stays as Create returned it, and every call that has returned
\* gave the answer the same call gives when it runs alone.
C15_ReadOnlyAfterConstruction ==
    /\ calls # <<>> => ret.object = calls[Len(calls)].object
    /\ \A r \in Readers :
          readers[r].pc = "Returned" =>
              LET alone == GetExtension(calls[Len(calls)].object[1],
                                        readers[r].extension_oid, readers[r].before)
              IN  /\ readers[r].ret = alone.ret
                  /\ readers[r].parsed_extension = alone.parsed_extension

\* two readers have looked different identifiers up on one certificate, and
\* both found them
C15_Witness ==
    \E r1, r2 \in Readers :
        /\ readers[r1].pc = "Returned" /\ readers[r1].ret
        /\ readers[r2].pc = "Returned" /\ readers[r2].ret
        /\ readers[r1].extension_oid # readers[r2].extension_oid

-----------------------------------------------------------------------------
(* Create runs to its return *)

\* a step of Create: the stage it is at
CreateStep ==
    \/ Stage_ParseCertificate
    \/ Stage_ParseTbsCertificate
    \/ Stage_ParseSignatureAlgorithm
    \/ Stage_Subject
    \/ Stage_Issuer
    \/ Stage_ParseExtensions
    \/ Stage_BasicConstraints
    \/ Stage_KeyUsage
    \/ Stage_ExtKeyUsage
    \/ Stage_SubjectAltName
    \/ Stage_NameConstraints
    \/ Stage_AuthorityInfoAccess
    \/ Stage_CertificatePolicies
    \/ Stage_PolicyConstraints
    \/ Stage_PolicyMappings
    \/ Stage_InhibitAnyPolicy
    \/ Stage_SubjectKeyIdentifier
    \/ Stage_AuthorityKeyIdentifier

\* one call of Create by a caller that waits for its return
NextOnce ==
    \/ CallCreateFirst
    \/ CreateStep
    \/ Create_Return

\* Create is straight-line code on the caller's thread: a call that has
\* started goes on to its next statement
FairSpec == Init /\ [][NextOnce]_vars /\ WF_vars(CreateStep)

\* no stage has run twice in this call, and no more stages have run than
\* the fixed order has
C16_EachStageAtMostOnce ==
    /\ Len(path) <= Len(FullPath)
    /\ \A i, j \in 1..Len(path) : path[i] = path[j] => i = j

\* C16: Create terminates on every input.  A call that is at a stage reaches
\* Complete or Failed, after at most as many stage steps as the fixed order
\* has stages, each stage (and so each lookup of a recognized extension)
\* having run at most once and none of them again.
C16_CreateTerminates ==
    /\ []C16_EachStageAtMostOnce
    /\ (pc \in Range(FullPath)) ~> (pc \in {"Complete", "Failed"})

\* a call has come to Complete after all the stages, on a buffer whose table
\* holds the extension of the last stage
C16_Witness ==
    /\ pc = "Complete"
    /\ Len(path) = Len(FullPath)
    /\ kAuthorityKeyIdentifierOid \in InputOids

\* the recognized extensions looked up before subjectAltName
BeforeSan == {kBasicConstraintsOid, kKeyUsageOid, kExtKeyUsageOid}

\* the buffer has an empty subject and a subjectAltName that is not critical,
\* and Create gets as far as the recognized extensions
EmptySubjectNonCriticalSan ==
    /\ SubjectIsEmpty
    /\ kSubjectAltNameOid \in InputOids
    /\ ~EntryOf(kSubjectAltNameOid).critical
    /\ TableBuilt
    /\ EarlyStagesSucceed

\* C17: the empty-subject rule is applied right after subjectAltName is
\* parsed and before any later extension.  With an empty subject and a
\* subjectAltName that is not critical: a refused basic constraints, key usage
\* or extended key usage value is reported, not the criticality error;
\* otherwise a refused subjectAltName value is reported as
\* kFailedParsingSubjectAltName, not as the criticality error; otherwise the
\* criticality error is reported, whatever name constraints and the later
\* extensions hold, and no later stage runs.
C17_EmptySubjectRuleOrder ==
    \A r \in Finished :
        EmptySubjectNonCriticalSan =>
            LET refused == {oid \in BeforeSan \cap InputOids :
                               ~ValueAccepted(EntryOf(oid).value)}
            IN  /\ r.object = <<>>
                /\ refused # {} =>
                      /\ r.errors =
                            << ErrorOf(CHOOSE oid \in refused :
                                   \A o \in refused : OidRank(oid) <= OidRank(o)) >>
                      /\ "SubjectAltName" \notin Range(r.path)
                /\ (refused = {} /\ ~ValueAccepted(EntryOf(kSubjectAltNameOid).value)) =>
                      r.errors = << kFailedParsingSubjectAltName >>
                /\ (refused = {} /\ ValueAccepted(EntryOf(kSubjectAltNameOid).value)) =>
                      r.errors = << kSubjectAltNameNotCritical >>
                /\ refused = {} =>
                      r.path = SubSeq(FullPath, 1, StagePositions["SubjectAltName"])

\* a call reported the criticality error on a buffer whose name constraints
\* value is refused as well
C17_Witness ==
    \E r \in Finished :
        /\ EmptySubjectNonCriticalSan
        /\ r.errors = << kSubjectAltNameNotCritical >>
        /\ kNameConstraintsOid \in InputOids
        /\ ~ValueAccepted(EntryOf(kNameConstraintsOid).value)

\* the identifiers the extension stages that have run in this call looked up,
\* in order (each such stage calls result->GetExtension once)
LookedUp ==
    [k \in 1..(Len(path) - Len(EarlyPath) - 1) |->
        StageOids[path[Len(EarlyPath) + 1 + k]]]

\* C18 as stated: a Create that completes over a buffer with an extensions
\* region has looked fourteen recognized identifiers up.
C18_AsStated ==
    (pc = "Complete" /\ HasExtensionsRegion) =>
        /\ Len(LookedUp) = 14
        /\ Cardinality(Range(LookedUp)) = 14

\* C18, amended: Create dispatches over exactly twelve recognized extension
\* identifiers.  A Create that completes over a buffer with an extensions
\* region has looked each of the twelve up exactly once, in the fixed order;
\* each has a parser of its own (the typed values are of twelve kinds) and an
\* error identifier of its own, the one reported when its parser refuses.
C18_TwelveRecognizedExtensions ==
    /\ (pc = "Complete" /\ HasExtensionsRegion) =>
          /\ Len(LookedUp) = 12
          /\ Cardinality(Range(LookedUp)) = 12
          /\ LookedUp = RecognizedOids
          /\ \A o1, o2 \in RecognizedOidSet \cap DOMAIN result[1].extensions_ :
                TypedValue(result[1], o1)[1] = TypedValue(result[1], o2)[1] => o1 = o2
    /\ (pc = "Failed" /\ Len(path) > Len(EarlyPath) + 1) =>
          /\ Errors[1] \in { ErrorOf(LookedUp[Len(LookedUp)]), kSubjectAltNameNotCritical }
          /\ \A o \in RecognizedOidSet :
                Errors[1] = ErrorOf(o) => o = LookedUp[Len(LookedUp)]
    /\ (pc = "Complete" /\ ~HasExtensionsRegion) => path = EarlyPath

\* Create has completed over a buffer whose region holds two recognized
\* extensions
C18_Witness ==
    /\ pc = "Complete"
    /\ HasExtensionsRegion
    /\ Cardinality(InputOids \cap RecognizedOidSet) = 2

\* what the parser of a recognized identifier makes of a table entry
ParserOutput(oid, entry) ==
    CASE oid = kBasicConstraintsOid -> ParseBasicConstraints(entry.value).out
      [] oid = kKeyUsageOid -> ParseKeyUsage(entry.value).out
      [] oid = kExtKeyUsageOid -> ParseEKUExtension(entry.value).out
      [] oid = kSubjectAltNameOid -> GeneralNames_Create(entry.value).out
      [] oid = kNameConstraintsOid ->
            NameConstraints_Create(entry.value, entry.critical).out
      [] oid = kAuthorityInfoAccessOid -> ParseAuthorityInfoAccessURIs(entry.value).out
      [] oid = kCertificatePoliciesOid ->
            ParseCertificatePoliciesExtensionOids(entry.value).out
      [] oid = kPolicyConstraintsOid -> ParsePolicyConstraints(entry.value).out
      [] oid = kPolicyMappingsOid -> ParsePolicyMappings(entry.value).out
      [] oid = kInhibitAnyPolicyOid -> ParseInhibitAnyPolicy(entry.value).out
      [] oid = kSubjectKeyIdentifierOid -> ParseSubjectKeyIdentifier(entry.value).out
      [] oid = kAuthorityKeyIdentifierOid ->
            ParseAuthorityKeyIdentifier(entry.value).out

\* the presence indicators of obj say what its table holds, and its typed
\* values are what the parsers made of the table entries
PresenceMatchesTable(obj) ==
    \A oid \in RecognizedOidSet :
        /\ Present(obj, oid) = (oid \in DOMAIN obj.extensions_)
        /\ TypedValue(obj, oid) =
              IF oid \in DOMAIN obj.extensions_
              THEN ParserOutput(oid, obj.extensions_[oid])
              ELSE <<>>

\* C19: on every certificate Create hands back, the presence indicator of
\* each recognized extension (the has_ flag, or the typed value being there
\* for subjectAltName, name constraints and the two key identifiers) is true
\* exactly when the table holds its identifier, and the typed value is the one
\* its parser computed from the table entry during Create; the certificate
\* the caller holds and reads is still the one Create returned.
C19_PresenceMatchesTable ==
    /\ pc = "Complete" => PresenceMatchesTable(result[1])
    /\ JustReturned =>
          \A r \in Finished : r.object # <<>> => PresenceMatchesTable(r.object[1])
    /\ ret.object # <<>> =>
          /\ ret.object = calls[Len(calls)].object
          /\ lookup # NoLookup => PresenceMatchesTable(ret.object[1])

\* the caller holds a certificate whose table has one recognized extension
\* and lacks the others, and has looked an identifier up on it
C19_Witness ==
    /\ ret.object # <<>>
    /\ lookup # NoLookup
    /\ Cardinality(DOMAIN ret.object[1].extensions_ \cap RecognizedOidSet) = 1
    /\ Cardinality(DOMAIN ret.object[1].extensions_) = 2

\* C20: the criticality error is produced only for an empty subject.  A call
\* that reports kSubjectAltNameNotCritical was given a buffer whose subject
\* value is empty; and with a subject value that is not empty, every other
\* stage succeeding, Create hands back an object whether subjectAltName is
\* absent, present and not critical, or present and critical.
C20_CriticalityErrorOnlyForEmptySubject ==
    \A r \in Finished :
        /\ kSubjectAltNameNotCritical \in Range(r.errors) =>
              /\ SubjectIsEmpty
              /\ kSubjectAltNameOid \in InputOids
        /\ ( /\ ~SubjectIsEmpty
             /\ TableBuilt
             /\ RecognizedAccepted({})
             /\ EarlyStagesSucceed ) =>
                /\ r.object # <<>>
                /\ r.errors = <<>>

\* a call handed back an object for a buffer with a subject that is not
\* empty and a subjectAltName that is not critical
C20_Witness ==
    \E r \in Finished :
        /\ r.object # <<>>
        /\ ~SubjectIsEmpty
        /\ kSubjectAltNameOid \in InputOids
        /\ ~EntryOf(kSubjectAltNameOid).critical

\* C21: what GetExtension does with its output parameter.  When the
\* identifier is in the table the parameter is set to the stored entry and
\* the answer is true; when the certificate has an extensions region without
\* the identifier the parameter is reset to a default entry (no value, not
\* critical) and the answer is false; when the certificate has no extensions
\* region the parameter is left as the caller passed it and the answer is
\* false.  The certificate, its table included, is as it was.
C21_GetExtensionOutputParameter ==
    lookup.oid # "" =>
        LET obj == calls[Len(calls)].object[1]
        IN  /\ ret.object = << obj >>
            /\ IF obj.tbs_.extensions_tlv = NoExtensions
               THEN ~lookup.ret /\ lookup.parsed_extension = lookup.before
               ELSE IF lookup.oid \in DOMAIN obj.extensions_
               THEN /\ lookup.ret
                    /\ lookup.parsed_extension = obj.extensions_[lookup.oid]
               ELSE /\ ~lookup.ret
                    /\ lookup.parsed_extension = ParsedExtension("", <<>>, FALSE)

\* the caller passed a ParsedExtension holding an earlier answer to a
\* certificate without extensions region, and got it back untouched
C21_Witness ==
    /\ lookup.oid # ""
    /\ ret.object # <<>>
    /\ ret.object[1].tbs_.extensions_tlv = NoExtensions
    /\ lookup.before = StaleParsedExtension
    /\ lookup.parsed_extension = StaleParsedExtension

-----------------------------------------------------------------------------
(* DNS record rdata: IntegrityRecordRdata and TxtRecordRdata.  The rdata a
   record is parsed from is a string of octets; the caller's use of the
   classes is kept in the variable rdata. *)

\* the largest octet value enumerated in nonces and TXT rdata
MaxByte == 2

\* the longest nonce enumerated (shorter than 2^16 octets)
MaxNonceLen == 2

\* the longest TXT rdata enumerated
MaxDataLen == 4

\* IntegrityRecordRdata::kDigestLen, the length of a SHA-256 digest
kDigestLen == 32

\* octet strings of at most n octets
ByteStrings(n) == UNION { [1..k -> 0..MaxByte] : k \in 0..n }

\* storing a size_t into a uint16_t parameter keeps the low sixteen bits
Uint16(value) == value % (2^16)

\* SHA-256 of the empty string
Sha256OfEmpty ==
    << 227, 176, 196, 66, 152, 252, 28, 20, 154, 251, 244, 200, 153, 111, 185, 36,
       39, 174, 65, 228, 100, 155, 147, 76, 164, 149, 153, 27, 120, 82, 184, 85 >>

\* Hash(nonce): the SHA-256 digest of the nonce.  The digest of the empty nonce
\* is the real one; the digest of any other nonce is a stand-in of the same
\* length that depends on the nonce's length and octets.
Hash(nonce) ==
    IF nonce = <<>> THEN Sha256OfEmpty
    ELSE [ k \in 1..kDigestLen |->
             (Sha256OfEmpty[k] + Len(nonce)
                + k * (nonce[((k - 1) % Len(nonce)) + 1] + 1)) % 256 ]

\* std::string(kDigestLen, 0)
kZeroDigest == [ k \in 1..kDigestLen |-> 0 ]

\* sizeof(uint16_t) + nonce.size() + kDigestLen
LengthForSerialization(nonce) == 2 + Len(nonce) + kDigestLen

\* IntegrityRecordRdata(Nonce nonce): the digest is computed from the nonce
IntegrityRecordRdata(nonce) ==
    [ type |-> "kExperimentalTypeIntegrity", nonce_ |-> nonce,
      digest_ |-> Hash(nonce), is_intact_ |-> TRUE ]

\* the record is intact whenever the length fits, whatever the digest
IntegrityRecordRdataParsed_LengthOnly(nonce, digest, rdata_len) ==
    [ type |-> "kExperimentalTypeIntegrity", nonce_ |-> nonce, digest_ |-> digest,
      is_intact_ |-> (rdata_len = LengthForSerialization(nonce)) ]

\* IntegrityRecordRdata(Nonce nonce, Digest digest, size_t rdata_len)
IntegrityRecordRdataParsed(nonce, digest, rdata_len) ==
    [ type |-> "kExperimentalTypeIntegrity", nonce_ |-> nonce, digest_ |-> digest,
      is_intact_ |-> (rdata_len = LengthForSerialization(nonce)
                        /\ Hash(nonce) = digest) ]

\* base::BigEndianReader::ReadU16LengthPrefixed on the unread octets: a
\* big-endian 16-bit length, then that many octets; a failed read consumes
\* nothing
ReadU16LengthPrefixed(unread) ==
    IF Len(unread) < 2
    THEN [ ok |-> FALSE, out |-> <<>>, unread |-> unread ]
    ELSE LET len == unread[1] * 256 + unread[2]
         IN  IF Len(unread) - 2 < len
             THEN [ ok |-> FALSE, out |-> <<>>, unread |-> unread ]
             ELSE [ ok |-> TRUE, out |-> SubSeq(unread, 3, 2 + len),
                    unread |-> SubSeq(unread, 3 + len, Len(unread)) ]

\* base::BigEndianReader::ReadPiece(out, len)
ReadPiece(unread, len) ==
    IF Len(unread) < len
    THEN [ ok |-> FALSE, out |-> <<>>, unread |-> unread ]
    ELSE [ ok |-> TRUE, out |-> SubSeq(unread, 1, len),
           unread |-> SubSeq(unread, len + 1, Len(unread)) ]

\* IntegrityRecordRdata::Create(data): the record, whether the parse
\* succeeded, and whether a CHECK or the DCHECK failed
IntegrityRecordRdata_Create(data) ==
    LET nonce_read == ReadU16LengthPrefixed(data)
        digest_read == ReadPiece(nonce_read.unread, kDigestLen)
        parse_success == nonce_read.ok /\ digest_read.ok
        parsed_nonce == IF parse_success THEN nonce_read.out ELSE <<>>
        parsed_digest == IF parse_success THEN digest_read.out ELSE kZeroDigest
        record == IntegrityRecordRdataParsed(parsed_nonce, parsed_digest, Len(data))
    IN  [ record |-> << record >>,
          parse_success |-> parse_success,
          crashed |-> \/ Len(parsed_digest) # kDigestLen
                      \/ (~parse_success /\ record.is_intact_) ]

\* base::BigEndianWriter::WriteU16(uint16_t value); a writer is the octets
\* written and the room that remains in its buffer
WriteU16(writer, value) ==
    IF writer.remaining < 2
    THEN [ writer EXCEPT !.ok = FALSE ]
    ELSE [ writer EXCEPT !.written = @ \o << Uint16(value) \div 256, Uint16(value) % 256 >>,
                         !.remaining = @ - 2 ]

\* base::BigEndianWriter::WriteBytes(buf, len)
WriteBytes(writer, buf) ==
    IF writer.remaining < Len(buf)
    THEN [ writer EXCEPT !.ok = FALSE ]
    ELSE [ writer EXCEPT !.written = @ \o buf, !.remaining = @ - Len(buf) ]

\* IntegrityRecordRdata::Serialize(): absl::nullopt (<<>>) or the octets, and
\* whether one of its CHECKs failed
Serialize(this) ==
    IF ~this.is_intact_
    THEN [ value |-> <<>>, crashed |-> FALSE ]
    ELSE LET w0 == [ written |-> <<>>, ok |-> TRUE,
                     remaining |-> LengthForSerialization(this.nonce_) ]
             w1 == WriteU16(w0, Len(this.nonce_))
             w2 == WriteBytes(w1, this.nonce_)
             w3 == WriteBytes(w2, this.digest_)
         IN  [ value |-> << w3.written >>,
               crashed |-> ~w1.ok \/ ~w2.ok \/ ~w3.ok \/ w3.remaining # 0 ]

\* IsEqual compares nonce and digest only
IsEqual_IgnoresIntact(this, other) ==
    IF other.type # this.type
    THEN FALSE
    ELSE /\ this.nonce_ = other.nonce_
         /\ this.digest_ = other.digest_

\* IntegrityRecordRdata::IsEqual(other)
IsEqual(this, other) ==
    IF other.type # this.type
    THEN FALSE
    ELSE /\ this.is_intact_
         /\ other.is_intact_
         /\ this.nonce_ = other.nonce_
         /\ this.digest_ = other.digest_

\* the nonces a caller constructs records from: short ones, and ones of 2^16
\* octets or more, which std::vector<uint8_t> allows
Nonces == ByteStrings(MaxNonceLen)

OversizeNonces == { [ k \in 1..(2^16 + n) |-> 0 ] : n \in 0..1 }

\* a serialized record whole, cut short, or followed by one more octet
RdataAround(nonce, digest) ==
    LET whole == << Len(nonce) \div 256, Len(nonce) % 256 >> \o nonce \o digest
    IN  { SubSeq(whole, 1, n) : n \in {0, 1, 2, Len(whole) - 1, Len(whole)} }
            \cup { whole \o << 0 >> }

\* the rdata handed to IntegrityRecordRdata::Create: made from serialized
\* records with a right or an all-zero digest
IntegrityRdata ==
    UNION { RdataAround(nonce, Hash(nonce)) \cup RdataAround(nonce, kZeroDigest) :
            nonce \in Nonces }

\* the records of the TXT type as IsEqual's other
TxtRecordRdata(texts) == [ type |-> "kTypeTXT", texts_ |-> texts ]

\* the records a caller may compare a record with
OtherRecords ==
    { IntegrityRecordRdata_Create(data).record[1] : data \in IntegrityRdata }
        \cup { IntegrityRecordRdata(nonce) : nonce \in Nonces }
        \cup { TxtRecordRdata(<<>>) }

\* the rdata handed to TxtRecordRdata::Create
TxtRdata == ByteStrings(MaxDataLen)

RdataFrame ==
    <<cert, edited, readers, options, chain, call, errors_null, errors_sink, unused_errors,
      pc, result, subject_value, extension, path, ret, calls, lookup>>

\* the caller calls IntegrityRecordRdata::Create(data)
CallIntegrityCreate ==
    /\ rdata.pc = "idle"
    /\ \E data \in IntegrityRdata :
        LET out == IntegrityRecordRdata_Create(data)
        IN  rdata' = [ NoRdata EXCEPT !.pc = "Returned", !.call = "Create",
                                      !.data = data, !.record = out.record,
                                      !.parse_success = out.parse_success,
                                      !.crashed = out.crashed ]
    /\ UNCHANGED RdataFrame

\* the caller constructs IntegrityRecordRdata(nonce)
CallIntegrityRecordRdata ==
    /\ rdata.pc = "idle"
    /\ \E nonce \in Nonces \cup OversizeNonces :
        rdata' = [ NoRdata EXCEPT !.pc = "Returned", !.call = "IntegrityRecordRdata",
                                  !.record = << IntegrityRecordRdata(nonce) >> ]
    /\ UNCHANGED RdataFrame

\* the caller calls Serialize() on the record it holds
CallSerialize ==
    /\ rdata.call \in {"Create", "IntegrityRecordRdata"}
    /\ LET out == Serialize(rdata.record[1])
       IN  rdata' = [ rdata EXCEPT !.call = "Serialize", !.serialized = out.value,
                                   !.crashed = out.crashed ]
    /\ UNCHANGED RdataFrame

\* the caller hands the serialized octets back to IntegrityRecordRdata::Create
CallCreateOnSerialized ==
    /\ rdata.call = "Serialize"
    /\ rdata.serialized # <<>>
    /\ ~rdata.crashed
    /\ LET out == IntegrityRecordRdata_Create(rdata.serialized[1])
       IN  rdata' = [ rdata EXCEPT !.call = "CreateOnSerialized",
                                   !.reparsed = out.record,
                                   !.parse_success = out.parse_success,
                                   !.crashed = out.crashed ]
    /\ UNCHANGED RdataFrame

\* the caller calls IsEqual(other) on the record it holds, other being that
\* very record or another one
CallIsEqual ==
    /\ rdata.call \in {"Create", "IntegrityRecordRdata"}
    /\ \E other \in OtherRecords \cup {rdata.record[1]} :
        rdata' = [ rdata EXCEPT !.call = "IsEqual", !.other = << other >>,
                                !.equal = IsEqual(rdata.record[1], other) ]
    /\ UNCHANGED RdataFrame

\* the caller calls TxtRecordRdata::Create(data, parser): rdata is a new
\* TxtRecordRdata and the loop starts at i = 0
CallTxtCreate ==
    /\ rdata.pc = "idle"
    /\ \E data \in TxtRdata :
        rdata' = [ NoRdata EXCEPT !.pc = "TxtLoop", !.call = "TxtCreate", !.data = data ]
    /\ UNCHANGED RdataFrame

\* the loop of TxtRecordRdata::Create lets a string run one octet past the end
TxtCreate_Iterate_OnePastEnd ==
    /\ rdata.pc = "TxtLoop"
    /\ rdata.i < Len(rdata.data)
    /\ LET i == rdata.i
           length == rdata.data[i + 1] % 256
           last == IF i + 1 + length < Len(rdata.data) THEN i + 1 + length
                   ELSE Len(rdata.data)
       IN  IF i + length > Len(rdata.data)
           THEN rdata' = [ rdata EXCEPT !.pc = "Returned", !.txt = <<>> ]
           ELSE rdata' = [ rdata EXCEPT !.texts_ = Append(@, SubSeq(rdata.data, i + 2, last)),
                                        !.i = i + length + 1 ]
    /\ UNCHANGED RdataFrame

\* one iteration of the loop of TxtRecordRdata::Create; data[i] of the code is
\* rdata.data[i + 1] here, and data.substr(i + 1, length) stops at the end of
\* data
TxtCreate_Iterate ==
    /\ rdata.pc = "TxtLoop"
    /\ rdata.i < Len(rdata.data)
    /\ LET i == rdata.i
           length == rdata.data[i + 1] % 256
           last == IF i + 1 + length < Len(rdata.data) THEN i + 1 + length
                   ELSE Len(rdata.data)
       IN  IF i + length >= Len(rdata.data)
           THEN rdata' = [ rdata EXCEPT !.pc = "Returned", !.txt = <<>> ]
           ELSE rdata' = [ rdata EXCEPT !.texts_ = Append(@, SubSeq(rdata.data, i + 2, last)),
                                        !.i = i + length + 1 ]
    /\ UNCHANGED RdataFrame

\* the loop of TxtRecordRdata::Create ends and rdata is returned
TxtCreate_Return ==
    /\ rdata.pc = "TxtLoop"
    /\ ~(rdata.i < Len(rdata.data))
    /\ rdata' = [ rdata EXCEPT !.pc = "Returned",
                               !.txt = << TxtRecordRdata(rdata.texts_) >> ]
    /\ UNCHANGED RdataFrame

\* the caller uses the rdata classes and parses no certificate
InitRdata ==
    /\ Init
    /\ cert = Certificate(TRUE, "ok", "sha256WithRSAEncryption", GoodName, GoodName,
                          NoExtensions)
    /\ options = DefaultOptions

NextRdata ==
    \/ CallIntegrityCreate
    \/ CallIntegrityRecordRdata
    \/ CallSerialize
    \/ CallCreateOnSerialized
    \/ CallIsEqual
    \/ CallTxtCreate
    \/ TxtCreate_Iterate
    \/ TxtCreate_Return

SpecRdata == InitRdata /\ [][NextRdata]_vars

\* TxtRecordRdata::Create runs to its end once called
FairSpecRdata == SpecRdata /\ WF_vars(TxtCreate_Iterate \/ TxtCreate_Return)

-----------------------------------------------------------------------------
(* Claims about the DNS record rdata classes *)

\* C22: IntegrityRecordRdata::Create returns a record for every input, no
\* CHECK or DCHECK of it fails, and the record of a failed parse is not
\* intact, also when the input is as long as a serialized record with an
\* empty nonce.
C22_CreateNeverNullFailedParseNotIntact ==
    /\ rdata.call = "Create" =>
        /\ rdata.record # <<>>
        /\ ~rdata.crashed
        /\ ~rdata.parse_success => ~rdata.record[1].is_intact_
    /\ rdata.call = "CreateOnSerialized" =>
        /\ rdata.reparsed # <<>>
        /\ ~rdata.crashed
        /\ ~rdata.parse_success => ~rdata.reparsed[1].is_intact_

\* Create has returned from a failed parse of an input as long as a serialized
\* record with an empty nonce
C22_Witness ==
    /\ rdata.call = "Create"
    /\ ~rdata.parse_success
    /\ Len(rdata.data) = LengthForSerialization(<<>>)
    /\ rdata.record # <<>>
    /\ ~rdata.record[1].is_intact_


\* C23: Serialize returns no value exactly when the record is not
\* intact; for an intact record no CHECK fails, the output is the length
\* prefix, the nonce and the digest, as long as LengthForSerialization says,
\* and Create on that output gives an intact record with the same nonce and
\* digest.
C23_SerializeRoundTrip ==
    /\ rdata.call = "Serialize" =>
        /\ (rdata.serialized = <<>>) = ~rdata.record[1].is_intact_
        /\ rdata.record[1].is_intact_ =>
            /\ ~rdata.crashed
            /\ Len(rdata.serialized[1]) = LengthForSerialization(rdata.record[1].nonce_)
            /\ SubSeq(rdata.serialized[1], 3, Len(rdata.serialized[1]))
                 = rdata.record[1].nonce_ \o rdata.record[1].digest_
    /\ rdata.call = "CreateOnSerialized" =>
        /\ rdata.reparsed # <<>>
        /\ rdata.reparsed[1].is_intact_
        /\ rdata.reparsed[1].nonce_ = rdata.record[1].nonce_
        /\ rdata.reparsed[1].digest_ = rdata.record[1].digest_


\* an intact record with a nonce of 2^16 octets or more was serialized, and
\* Create on the output gave a record that is not intact and has another nonce
C23_Witness ==
    /\ rdata.call = "CreateOnSerialized"
    /\ rdata.record[1].is_intact_
    /\ Len(rdata.record[1].nonce_) >= 2^16
    /\ ~rdata.crashed
    /\ ~rdata.reparsed[1].is_intact_
    /\ rdata.reparsed[1].nonce_ # rdata.record[1].nonce_


\* C24: IsEqual returns true only for two intact IntegrityRecordRdata with the
\* same nonce and digest.  A record that is not intact equals no record, not
\* even itself; an intact record equals itself, and on intact records the
\* answer is the same in both directions.
C24_IsEqualOnlyIntact ==
    rdata.call = "IsEqual" =>
        LET this == rdata.record[1]
            other == rdata.other[1]
        IN  /\ rdata.equal =>
                /\ other.type = this.type
                /\ this.is_intact_ /\ other.is_intact_
                /\ this.nonce_ = other.nonce_
                /\ this.digest_ = other.digest_
            /\ ~this.is_intact_ => ~rdata.equal
            /\ (other.type = this.type /\ ~other.is_intact_) => ~rdata.equal
            /\ (this.is_intact_ /\ other = this) => rdata.equal
            /\ (other.type = this.type /\ this.is_intact_ /\ other.is_intact_) =>
                rdata.equal = IsEqual(other, this)

\* a record that is not intact was compared with itself
C24_Witness ==
    /\ rdata.call = "IsEqual"
    /\ ~rdata.record[1].is_intact_
    /\ rdata.other = rdata.record
    /\ ~rdata.equal


\* starts is the set of offsets of the length octets when data is cut into
\* length-prefixed strings: the first string starts at 0, each string is
\* followed by the next one or by the end of data, and nothing else starts one
IsCutInto(data, starts) ==
    /\ (0 \in starts) = (Len(data) > 0)
    /\ \A s \in starts : s + data[s + 1] + 1 \in starts \cup {Len(data)}
    /\ \A s \in starts \ {0} : \E p \in starts : p + data[p + 1] + 1 = s

\* data is an exact concatenation of length-prefixed strings
IsConcatenation(data) ==
    \E starts \in SUBSET (0..(Len(data) - 1)) : IsCutInto(data, starts)

\* texts holds, in input order, the strings of data cut at starts
TextsOfCut(data, starts, texts) ==
    /\ Len(texts) = Cardinality(starts)
    /\ \A s \in starts :
        texts[1 + Cardinality({ p \in starts : p < s })]
            = SubSeq(data, s + 2, s + 1 + data[s + 1])

\* what TxtRecordRdata::Create has returned is right for its input
C25_TxtCreateResult ==
    (rdata.call = "TxtCreate" /\ rdata.pc = "Returned") =>
        /\ (rdata.txt # <<>>) = IsConcatenation(rdata.data)
        /\ rdata.txt # <<>> =>
            \E starts \in SUBSET (0..(Len(rdata.data) - 1)) :
                /\ IsCutInto(rdata.data, starts)
                /\ TextsOfCut(rdata.data, starts, rdata.txt[1].texts_)
        /\ rdata.data = <<>> => rdata.txt = << TxtRecordRdata(<<>>) >>

\* C25: TxtRecordRdata::Create returns on every input; it returns a record
\* exactly when the data is an exact concatenation of length-prefixed strings,
\* with those strings as its texts in input order (none for empty data), and
\* null otherwise.
C25_TxtCreateParsesExactly ==
    /\ []C25_TxtCreateResult
    /\ (rdata.pc = "TxtLoop") ~> (rdata.pc = "Returned")

\* Create has returned a record with two texts or more, the first not empty
C25_Witness ==
    /\ rdata.call = "TxtCreate"
    /\ rdata.pc = "Returned"
    /\ rdata.txt # <<>>
    /\ Len(rdata.txt[1].texts_) >= 2
    /\ rdata.txt[1].texts_[1] # <<>>

====
